---- MODULE Spec2Model ----
(***************************************************************************)
(* Coder App: the project-synchronisation layer.                           *)
(*                                                                         *)
(* Main process (src/main.js): the chokidar watcher, the isInternalChange  *)
(* flag with its reset timers, and the IPC handlers that touch the disk.   *)
(* Renderer (src/App.tsx, second App component, lines 383-931): the        *)
(* session state and the handleSendMessage cycle.                          *)
(*                                                                         *)
(* Time advances in ticks of 50 ms (the greatest common divisor of the     *)
(* 250 ms reset delay, the 500 ms stability threshold and the 100 ms poll  *)
(* interval).                                                              *)
(***************************************************************************)
EXTENDS Integers, Sequences, FiniteSets, TLC

\* ---------------------------------------------------------------- bounds
\* successful open-project calls in a run
MaxOpens == 2
\* handleSendMessage calls in a run
MaxSends == 1
\* files in one AI response
MaxFiles == 2
\* filesystem mutations made by other processes in a run
MaxExternal == 1
\* node operations (create, delete, rename, upload) in a run
MaxNodeOps == 1
\* gestures the user makes in the editor: a click to edit, a change of the text
MaxEdits == 2

\* ------------------------------------------------------ program constants
\* setTimeout(..., 250) of write-file, in ticks
Grace == 5
\* awaitWriteFinish.stabilityThreshold: 500, in ticks
Stability == 10
\* awaitWriteFinish.pollInterval: 100, in ticks
Poll == 2
\* the debounce of the save (300 ms) and of the editor's onCodeChange (500 ms)
DebounceWrite == 6
DebounceEdit == 10

\* ------------------------------------------------------------ the universe
Roots == {"A", "B"}
NoRoot == "null"
Names == {"a.ts", "b.ts", "src", "lib", "dist"}
\* relative paths, as the sequence of their segments; <<>> is "no path" (null)
AllPaths == {<<n>> : n \in Names} \cup {<<d, n>> : d \in Names, n \in Names}
NoPath == <<>>
ReadmePath == <<"README.md">>
\* the deeper paths a move or a response reaches
DeepPaths == {<<"lib", "src", "b.ts">>, <<"src", "src", "b.ts">>}
DiskPaths == AllPaths \cup DeepPaths \cup {ReadmePath}

Absent == "<absent>"
Dir == "<dir>"
IsFile(node) == node # Absent /\ node # Dir

\* the paths the AI may name, and what it may put there
AiFile(k) == IF k % 2 = 1 THEN [fileName |-> <<"a.ts">>, code |-> IF k = 1 THEN "A" ELSE "C"] ELSE [fileName |-> <<"src", "b.ts">>, code |-> "B"]
\* the responses have from 0 to MaxFiles files: a.ts, src/b.ts, a.ts again, ...
FileLists == {[k \in 1..n |-> AiFile(k)] : n \in 0..MaxFiles}
Responses == [files : FileLists, readmeContent : {"", "R"}]
NoResponse == [files |-> <<>>, readmeContent |-> ""]
\* a response naming a file two folders deep
DeepResponse == [files |-> <<[fileName |-> <<"src", "src", "b.ts">>, code |-> "B"]>>, readmeContent |-> ""]
Prompts == {"p"}

Parent(p) == SubSeq(p, 1, Len(p) - 1)
IsPrefix(p, q) == Len(p) <= Len(q) /\ SubSeq(q, 1, Len(p)) = p
\* q with its prefix old replaced by new
Rebase(q, old, new) == new \o SubSeq(q, Len(old) + 1, Len(q))

\* chokidar option `ignored`: dotfiles, node_modules, dist, build
WatcherIgnores(p) == \E i \in 1..Len(p) : p[i] \in {"dist"}
\* readProjectTree's ignoredDirs
ignoredDirs == {"dist"}

VARIABLES
    \* main process
    watcher, watchers, isInternalChange, timers, pending, disk, chatJson,
    updates, out, writeCalls, opened, externals, nodeOps,
    \* renderer
    projectRoot, fileTree, activeFile, activeFileContent, selectedNodes,
    recentlyUpdatedPaths, readmeContent, chatHistory, isLoading, error,
    notification, chat, chatSeq, aiProvider, sm, sends, op, loads,
    \* the editor and the debounced save
    editText, isEditing, editorTimers, writeTimers, debounceWriteFileRef, edits, bursts, editWrites, lastEdit,
    \* handleMoveNodes in progress
    mv,
    \* the context builder's calls and the response parsers' calls
    cx, px,
    \* the prompt cycle that shows each returned file being typed
    an

mainVars == <<watcher, watchers, isInternalChange, timers, pending, disk, chatJson, updates, out, writeCalls, opened, externals, nodeOps>>
sessionVars == <<projectRoot, fileTree, activeFile, activeFileContent, selectedNodes, recentlyUpdatedPaths, readmeContent, chatHistory, isLoading, error, notification, chat, chatSeq, aiProvider, sm, sends, op, loads>>
editVars == <<editText, isEditing, editorTimers, writeTimers, debounceWriteFileRef, edits, bursts, editWrites, lastEdit>>
pureVars == <<cx, px, an>>
otherVars == <<mv, cx, px, an>>
vars == <<mainVars, sessionVars, editVars, mv, pureVars>>
\* the main process's variables but the step output
mainRest == <<watcher, watchers, isInternalChange, timers, pending, disk, chatJson, updates, writeCalls, opened, externals, nodeOps>>
editRest == <<editText, editorTimers, writeTimers, debounceWriteFileRef, edits, bursts, editWrites, lastEdit>>
\* CodeDisplay's effect on [fileName]: a change of the displayed file ends editing
EditorFileEffect == isEditing' = (isEditing /\ activeFile' = activeFile)
\* a step in which the editor and the debounced save do nothing
EditorIdle == EditorFileEffect /\ UNCHANGED editRest

\* ------------------------------------------------------------------ disk
\* the non-empty proper prefixes of p (its ancestor directories)
Ancestors(p) == {SubSeq(p, 1, k) : k \in 1..(Len(p) - 1)}
\* fs.mkdir(dir, {recursive: true}) fails when a segment of dir is a file
MkdirFails(d, dir) == \E a \in Ancestors(dir) \cup ({dir} \ {NoPath}) : IsFile(d[a])
MkdirP(d, dir) == [q \in DOMAIN d |-> IF q \in Ancestors(dir) \cup {dir} /\ d[q] = Absent THEN Dir ELSE d[q]]
\* the directories mkdir -p creates
NewDirs(d, dir) == {q \in Ancestors(dir) \cup ({dir} \ {NoPath}) : d[q] = Absent}
\* fs.writeFile fails on a directory
WriteFails(d, p) == d[p] = Dir
\* fs.rm(p, {recursive, force}): p and everything under it
Removed(d, p) == {q \in DOMAIN d : IsPrefix(p, q) /\ d[q] # Absent}
RmRf(d, p) == [q \in DOMAIN d |-> IF IsPrefix(p, q) THEN Absent ELSE d[q]]

\* --------------------------------------------------------------- chokidar
\* what the last step did, for the steps the properties speak about
NoOut == [kind |-> "none", op |-> "", armed |-> FALSE, root |-> NoRoot, srcs |-> {}, quiet |-> FALSE, w |-> 0, age |-> 0]
\* awaitWriteFinish holds back add and change of files; the other events are immediate
Settles(kind) == kind \in {"add", "change"}
\* One filesystem mutation of `path` under `root`, seen by every live watcher of that
\* root: the event replaces a pending one for the same path and restarts its
\* stability window. srcs and quiet record who made the coalesced mutations and
\* whether isInternalChange has been false since the first of them.
Observe(pend, root, path, kind, src) ==
    IF WatcherIgnores(path) THEN pend
    ELSE LET ids == {w.id : w \in {x \in watchers : x.root = root}}
             old == {e \in pend : e.w \in ids /\ e.path = path}
             merge(w) == {e \in old : e.w = w /\ Settles(e.kind) /\ Settles(kind)}
         IN (pend \ old) \cup
            {[w |-> w, path |-> path, age |-> 0,
              kind |-> IF merge(w) # {} /\ (\E e \in merge(w) : e.kind = "add") THEN "add" ELSE kind,
              srcs |-> {src} \cup UNION {e.srcs : e \in merge(w)},
              quiet |-> ~isInternalChange /\ \A e \in merge(w) : e.quiet] : w \in ids}

RECURSIVE ObserveAll(_, _, _, _, _)
ObserveAll(pend, root, paths, kind, src) ==
    IF paths = {} THEN pend
    ELSE LET p == CHOOSE x \in paths : TRUE
         IN ObserveAll(Observe(pend, root, p, kind, src), root, paths \ {p}, kind, src)

\* ---------------------------------------------------------- session helpers
UserTurn(prompt, withContext) == [role |-> "user", text |-> prompt, ctx |-> withContext, resp |-> NoResponse]
ModelTurn(resp) == [role |-> "model", text |-> "", ctx |-> FALSE, resp |-> resp]
NoChat == [id |-> 0, history |-> <<>>]
Idle == [pc |-> "idle", root |-> NoRoot, provider |-> "", prompt |-> "", currentHistory |-> <<>>, resp |-> NoResponse, i |-> 0, chatId |-> 0, chatBefore |-> <<>>, diskBefore |-> <<>>, issued |-> 0, newHistory |-> <<>>, session |-> 0]
NoOp == [pc |-> "idle", root |-> NoRoot]

\* readProjectTree: every entry not under an ignored directory name
Listed(d, p) == d[p] # Absent /\ \A i \in 1..Len(p) : p[i] \notin ignoredDirs
readProjectTree(d) == {[path |-> p, type |-> IF d[p] = Dir THEN "folder" ELSE "file"] : p \in {q \in DOMAIN d : Listed(d, q)}}
\* refreshProject's README lookup: the root-level readme.md, '' when there is none
ReadmeOf(d) == IF IsFile(d[ReadmePath]) THEN d[ReadmePath] ELSE ""

\* The effect on [activeFile, projectRoot]: when either changed, the buffer is
\* cleared at once if one of them is null, and re-read from disk otherwise.
LoadEffect(af, pr, content) ==
    LET changed == af # activeFile \/ pr # projectRoot
    IN /\ loads' = IF changed /\ af # NoPath /\ pr # NoRoot THEN loads \cup {[root |-> pr, path |-> af]} ELSE loads
       /\ activeFileContent' = IF changed /\ (af = NoPath \/ pr = NoRoot) THEN "" ELSE content

\* ------------------------------------------------------------ main process
\* setTimeout bookkeeping: timers[r] callbacks fire in r ticks
Schedule(ts, delay) == [ts EXCEPT ![delay] = @ + 1]

\* faulty variant: the previous watcher is left running
setupWatcherNoClose(root) ==
    /\ watchers' = watchers \cup {[id |-> opened + 1, root |-> root]}
    /\ pending' = pending
    /\ watcher' = opened + 1

setupWatcher(root) ==
    /\ watchers' = {w \in watchers : w.id # watcher} \cup {[id |-> opened + 1, root |-> root]}
    /\ pending' = {e \in pending : e.w # watcher}
    /\ watcher' = opened + 1

\* time passes, unless a timer or a watcher event is due now
Tick ==
    /\ timers[0] = 0
    /\ \A e \in pending : Settles(e.kind) /\ e.age < Stability + Poll
    /\ \A t \in editorTimers \cup writeTimers : t.left > 0
    /\ timers' = [r \in DOMAIN timers |-> IF r = Grace THEN 0 ELSE timers[r + 1]]
    /\ pending' = {[e EXCEPT !.age = @ + 1] : e \in pending}
    /\ editorTimers' = {[t EXCEPT !.left = @ - 1] : t \in editorTimers}
    /\ writeTimers' = {[t EXCEPT !.left = @ - 1] : t \in writeTimers}
    /\ out' = NoOut
    /\ UNCHANGED <<watcher, watchers, isInternalChange, disk, chatJson, updates, writeCalls, opened, externals, nodeOps>>
    /\ UNCHANGED sessionVars
    /\ UNCHANGED <<editText, isEditing, debounceWriteFileRef, edits, bursts, editWrites, lastEdit, mv>>
    /\ UNCHANGED pureVars

\* the callback of write-file's setTimeout
ResetTimerFire ==
    /\ timers[0] > 0
    /\ timers' = [timers EXCEPT ![0] = @ - 1]
    /\ isInternalChange' = FALSE
    /\ out' = NoOut
    /\ UNCHANGED <<watcher, watchers, pending, disk, chatJson, updates, writeCalls, opened, externals, nodeOps>>
    /\ UNCHANGED sessionVars
    /\ EditorIdle /\ UNCHANGED otherVars

\* faulty variant: the test of the flag is inverted
ForwardsInverted(flag) == flag

\* watcher.on('all'): forward unless isInternalChange
Forwards(flag) == ~flag

\* chokidar hands a settled event to the 'all' listener
WatcherEvent(e) ==
    /\ e \in pending
    /\ Settles(e.kind) => e.age >= Stability
    /\ pending' = pending \ {e}
    /\ updates' = IF Forwards(isInternalChange) THEN updates + 1 ELSE updates
    /\ out' = [kind |-> IF Forwards(isInternalChange) THEN "forward" ELSE "ignore", op |-> e.kind, armed |-> isInternalChange,
               root |-> (CHOOSE w \in watchers : w.id = e.w).root, srcs |-> e.srcs, quiet |-> e.quiet, w |-> e.w, age |-> e.age]
    /\ UNCHANGED <<watcher, watchers, isInternalChange, timers, disk, chatJson, writeCalls, opened, externals, nodeOps>>
    /\ UNCHANGED sessionVars
    /\ EditorIdle /\ UNCHANGED otherVars

\* another process changes a file under a root, or deletes it (content Absent)
ExternalMutation(root, path, content) ==
    /\ externals < MaxExternal
    /\ externals' = externals + 1
    /\ IsFile(disk[root][path])
    /\ disk' = [disk EXCEPT ![root][path] = content]
    /\ pending' = Observe(pending, root, path, IF content = Absent THEN "unlink" ELSE "change", "external")
    /\ out' = NoOut
    /\ UNCHANGED <<watcher, watchers, isInternalChange, timers, chatJson, updates, writeCalls, opened, nodeOps>>
    /\ UNCHANGED sessionVars
    /\ EditorIdle /\ UNCHANGED otherVars

\* ipcMain.handle('write-file'), up to the first await: the flag is armed
WriteFileStart(c) ==
    /\ c \in writeCalls
    /\ c.stage = "sent"
    /\ isInternalChange' = TRUE
    /\ writeCalls' = (writeCalls \ {c}) \cup {[c EXCEPT !.stage = "running"]}
    /\ pending' = {[e EXCEPT !.quiet = FALSE] : e \in pending}
    /\ out' = NoOut
    /\ UNCHANGED <<watcher, watchers, timers, disk, chatJson, updates, opened, externals, nodeOps>>
    /\ UNCHANGED sessionVars
    /\ EditorIdle /\ UNCHANGED otherVars

\* ------------------------------------------------- handleSendMessage cycle
Last(seq) == seq[Len(seq)]
AllButLast(seq) == SubSeq(seq, 1, Len(seq) - 1)
\* faulty variant: only the directory that holds the file
getParentDirsDirect(p) == {Parent(p)} \ {NoPath}

\* the written paths and each of their parent directories
getParentDirs(p) == Ancestors(p)
AllUpdatedPaths(resp) == UNION {{resp.files[k].fileName} \cup getParentDirs(resp.files[k].fileName) : k \in 1..Len(resp.files)}
WriteCall(root, path, content) == [caller |-> "send", id |-> 0, root |-> root, path |-> path, content |-> content, stage |-> "sent"]
SendEnd(how, at) == [NoOut EXCEPT !.kind = how, !.op = at]

\* handleSendMessage with no project open
HandleSendMessageNoProject ==
    /\ projectRoot = NoRoot /\ ~isLoading
    /\ error' = "No project is open. Please open a folder first."
    /\ out' = NoOut
    /\ UNCHANGED mainRest
    /\ UNCHANGED <<projectRoot, fileTree, activeFile, activeFileContent, selectedNodes, recentlyUpdatedPaths, readmeContent, chatHistory, isLoading, notification, chat, chatSeq, aiProvider, sm, sends, op, loads>>
    /\ EditorIdle /\ UNCHANGED otherVars

\* handleSendMessage up to its first await: the optimistic append
HandleSendMessage(prompt) ==
    /\ projectRoot # NoRoot /\ ~isLoading
    /\ sm.pc = "idle" /\ sends < MaxSends
    /\ sends' = sends + 1
    /\ isLoading' = TRUE
    /\ error' = ""
    /\ recentlyUpdatedPaths' = {}
    /\ chatHistory' = Append(chatHistory, UserTurn(prompt, FALSE))
    /\ sm' = [Idle EXCEPT !.pc = IF aiProvider = "gemini" THEN "prepare" ELSE "exchange", !.root = projectRoot,
              !.provider = aiProvider, !.prompt = prompt, !.currentHistory = chatHistory,
              !.chatBefore = chatJson[projectRoot], !.diskBefore = disk[projectRoot], !.session = opened]
    /\ out' = NoOut
    /\ UNCHANGED mainRest
    /\ UNCHANGED <<projectRoot, fileTree, activeFile, activeFileContent, selectedNodes, readmeContent, notification, chat, chatSeq, aiProvider, op, loads>>
    /\ EditorIdle /\ UNCHANGED otherVars

\* gemini: readChatHistory from disk, then initializeChat(historyOnDisk)
GeminiPrepare ==
    /\ sm.pc = "prepare"
    /\ chatSeq' = chatSeq + 1
    /\ chat' = [id |-> chatSeq + 1, history |-> chatJson[sm.root]]
    /\ sm' = [sm EXCEPT !.pc = "exchange", !.chatId = chatSeq + 1]
    /\ out' = NoOut
    /\ UNCHANGED mainRest
    /\ UNCHANGED <<projectRoot, fileTree, activeFile, activeFileContent, selectedNodes, recentlyUpdatedPaths, readmeContent, chatHistory, isLoading, error, notification, aiProvider, sends, op, loads>>
    /\ EditorIdle /\ UNCHANGED otherVars

\* setChatHistory(prev => prev.slice(0, -1))
Rollback(history) == AllButLast(history)

\* the catch and finally blocks: roll back the last transcript entry
SendCatch(message, at) ==
    /\ error' = message
    /\ chatHistory' = Rollback(chatHistory)
    /\ isLoading' = FALSE
    /\ sm' = [sm EXCEPT !.pc = "idle"]
    /\ out' = SendEnd("sendFailed", at)

\* the AI call (or, for gemini, initializeChat before it) throws
AiFail(message) ==
    /\ sm.pc \in {"prepare", "exchange"}
    /\ SendCatch(message, "ai")
    /\ UNCHANGED mainRest
    /\ UNCHANGED <<projectRoot, fileTree, activeFile, activeFileContent, selectedNodes, recentlyUpdatedPaths, readmeContent, notification, chat, chatSeq, aiProvider, sends, op, loads>>
    /\ EditorIdle /\ UNCHANGED otherVars

\* after the transcript step: write README.md when the response has one, else go on to the refresh
GoReadmeOrRefresh(s, calls) ==
    IF s.resp.readmeContent # ""
    THEN /\ writeCalls' = calls \cup {WriteCall(s.root, ReadmePath, s.resp.readmeContent)}
         /\ sm' = [s EXCEPT !.pc = "readme", !.issued = @ + 1]
         /\ UNCHANGED <<readmeContent, recentlyUpdatedPaths>>
    ELSE /\ writeCalls' = calls
         /\ sm' = [s EXCEPT !.pc = "refresh"]
         /\ readmeContent' = ""
         /\ recentlyUpdatedPaths' = AllUpdatedPaths(s.resp)

\* newHistory: the session's history for gemini, the captured transcript plus both turns for ollama
NewHistory(s, c) == IF s.provider = "gemini" THEN (IF c.id # 0 THEN c.history ELSE <<>>) ELSE s.currentHistory \o <<UserTurn(s.prompt, FALSE), ModelTurn(s.resp)>>

\* after the write loop: activate the last file, rebuild the transcript, persist it
AfterLoop(s, calls, c) ==
    LET af == IF Len(s.resp.files) > 0 THEN Last(s.resp.files).fileName ELSE activeFile
        newHistory == NewHistory(s, c)
    IN /\ activeFile' = af
       /\ LoadEffect(af, projectRoot, activeFileContent)
       /\ IF Len(newHistory) > 0
          THEN /\ chatHistory' = newHistory
               /\ sm' = [s EXCEPT !.pc = "persist", !.newHistory = newHistory]
               /\ writeCalls' = calls
               /\ UNCHANGED <<readmeContent, recentlyUpdatedPaths>>
          ELSE /\ chatHistory' = chatHistory
               /\ GoReadmeOrRefresh(s, calls)

\* the AI answers with a well-formed response; the write loop starts
AiRespond(resp) ==
    /\ sm.pc = "exchange"
    /\ LET c == IF sm.provider = "gemini" /\ chat.id = sm.chatId /\ chat.id # 0
                THEN [chat EXCEPT !.history = @ \o <<UserTurn(sm.prompt, TRUE), ModelTurn(resp)>>] ELSE chat
           s == [sm EXCEPT !.resp = resp]
       IN /\ chat' = c
          /\ IF Len(resp.files) > 0
             THEN /\ sm' = [s EXCEPT !.pc = "write", !.i = 1, !.issued = 1]
                  /\ writeCalls' = writeCalls \cup {WriteCall(s.root, resp.files[1].fileName, resp.files[1].code)}
                  /\ UNCHANGED <<activeFile, activeFileContent, loads, chatHistory, readmeContent, recentlyUpdatedPaths>>
             ELSE AfterLoop(s, writeCalls, c)
    /\ out' = NoOut
    /\ UNCHANGED <<watcher, watchers, isInternalChange, timers, pending, disk, chatJson, updates, opened, externals, nodeOps>>
    /\ UNCHANGED <<projectRoot, fileTree, selectedNodes, isLoading, error, notification, chatSeq, aiProvider, sends, op>>
    /\ EditorIdle /\ UNCHANGED otherVars

\* what write-file leaves on disk: mkdir -p of the parent, then the file
DiskAfterWrite(d, path, content, mkdirOk, writeOk) ==
    IF ~mkdirOk THEN d
    ELSE LET d1 == MkdirP(d, Parent(path))
         IN IF writeOk THEN [d1 EXCEPT ![path] = content] ELSE d1

\* what the watchers see of it
SeenAfterWrite(pend, d, root, path, mkdirOk, writeOk) ==
    IF ~mkdirOk THEN pend
    ELSE LET p1 == ObserveAll(pend, root, NewDirs(d, Parent(path)), "addDir", "write-file")
         IN IF writeOk THEN Observe(p1, root, path, IF d[path] = Absent THEN "add" ELSE "change", "write-file") ELSE p1

\* the delay of the reset callback
ResetDelay == Grace

\* ipcMain.handle('write-file') from its first await to the end (the filesystem
\* work, then finally: the reset timer), and the caller's code that runs on the reply.
\* io is what the filesystem answers: "ok", "mkdir" (mkdir fails) or "write" (writeFile fails).
WriteFileFinish(c, io) ==
    /\ c \in writeCalls
    /\ c.stage = "running" /\ c.caller = "send"
    /\ LET d == disk[c.root]
           mkdirOk == ~MkdirFails(d, Parent(c.path)) /\ io # "mkdir"
           writeOk == mkdirOk /\ ~WriteFails(d, c.path) /\ io # "write"
           rest == writeCalls \ {c}
       IN /\ disk' = [disk EXCEPT ![c.root] = DiskAfterWrite(d, c.path, c.content, mkdirOk, writeOk)]
          /\ pending' = SeenAfterWrite(pending, d, c.root, c.path, mkdirOk, writeOk)
          /\ timers' = Schedule(timers, ResetDelay)
          /\ IF ~writeOk
             THEN /\ SendCatch("write-file failed", IF sm.pc = "write" THEN "write" ELSE "readme")
                  /\ writeCalls' = rest
                  /\ UNCHANGED <<activeFile, activeFileContent, loads, readmeContent, recentlyUpdatedPaths>>
             ELSE /\ UNCHANGED <<error, isLoading>>
                  /\ out' = [NoOut EXCEPT !.kind = "wrote", !.op = "write-file", !.armed = isInternalChange, !.root = c.root]
                  /\ IF sm.pc = "write" /\ sm.i < Len(sm.resp.files)
                     THEN /\ sm' = [sm EXCEPT !.i = @ + 1, !.issued = @ + 1]
                          /\ writeCalls' = rest \cup {WriteCall(sm.root, sm.resp.files[sm.i + 1].fileName, sm.resp.files[sm.i + 1].code)}
                          /\ UNCHANGED <<activeFile, activeFileContent, loads, chatHistory, readmeContent, recentlyUpdatedPaths>>
                     ELSE IF sm.pc = "write"
                     THEN AfterLoop(sm, rest, chat)
                     ELSE /\ sm' = [sm EXCEPT !.pc = "refresh"]
                          /\ writeCalls' = rest
                          /\ readmeContent' = sm.resp.readmeContent
                          /\ recentlyUpdatedPaths' = AllUpdatedPaths(sm.resp)
                          /\ UNCHANGED <<activeFile, activeFileContent, loads, chatHistory>>
    /\ UNCHANGED <<watcher, watchers, isInternalChange, chatJson, updates, opened, externals, nodeOps>>
    /\ UNCHANGED <<projectRoot, fileTree, selectedNodes, notification, chat, chatSeq, aiProvider, sends, op>>
    /\ EditorIdle /\ UNCHANGED otherVars

\* ipcMain.handle('write-chat-history'): a failure is logged and swallowed; then
\* the README step of handleSendMessage
WriteChatHistoryDone(io) ==
    /\ sm.pc = "persist"
    /\ chatJson' = IF io = "ok" THEN [chatJson EXCEPT ![sm.root] = sm.newHistory] ELSE chatJson
    /\ GoReadmeOrRefresh(sm, writeCalls)
    /\ out' = [NoOut EXCEPT !.kind = "persisted", !.op = io]
    /\ UNCHANGED <<watcher, watchers, isInternalChange, timers, pending, disk, updates, opened, externals, nodeOps>>
    /\ UNCHANGED <<projectRoot, fileTree, activeFile, activeFileContent, selectedNodes, chatHistory, isLoading, error, notification, chat, chatSeq, aiProvider, sends, op, loads>>
    /\ EditorIdle /\ UNCHANGED otherVars

\* refreshProject(projectRoot) returns; the success notification; finally
SendRefreshDone ==
    /\ sm.pc = "refresh"
    /\ fileTree' = readProjectTree(disk[sm.root])
    /\ readmeContent' = ReadmeOf(disk[sm.root])
    /\ notification' = "Project updated successfully!"
    /\ isLoading' = FALSE
    /\ sm' = [sm EXCEPT !.pc = "idle"]
    /\ out' = SendEnd("sendDone", "")
    /\ UNCHANGED mainRest
    /\ UNCHANGED <<projectRoot, activeFile, activeFileContent, selectedNodes, recentlyUpdatedPaths, chatHistory, error, chat, chatSeq, aiProvider, sends, op, loads>>
    /\ EditorIdle /\ UNCHANGED otherVars

\* ------------------------------------------------------ open and close
\* resetState, followed by setProjectRoot(root) when a project is being opened
resetState(root) ==
    /\ chat' = NoChat
    /\ projectRoot' = root
    /\ fileTree' = {}
    /\ activeFile' = NoPath
    /\ LoadEffect(NoPath, root, activeFileContent)
    /\ selectedNodes' = {}
    /\ recentlyUpdatedPaths' = {}
    /\ readmeContent' = ""
    /\ chatHistory' = <<>>
    /\ error' = ""
    /\ isLoading' = FALSE
    /\ notification' = ""

\* ipcMain.handle('open-project') with a directory picked, and handleOpenProject
\* up to its refreshProject call. The Open button is shown when no project is open.
OpenProject(root) ==
    /\ projectRoot = NoRoot /\ op.pc = "idle" /\ opened < MaxOpens
    /\ opened' = opened + 1
    /\ setupWatcher(root)
    /\ resetState(root)
    /\ op' = [pc |-> "refresh", root |-> root]
    /\ out' = [NoOut EXCEPT !.kind = "opened", !.root = root, !.srcs = UNION {e.srcs : e \in pending \ pending'}]
    /\ UNCHANGED <<isInternalChange, timers, disk, chatJson, updates, writeCalls, externals, nodeOps>>
    /\ UNCHANGED <<chatSeq, aiProvider, sm, sends>>
    /\ EditorIdle /\ UNCHANGED otherVars

\* handleOpenProject: refreshProject(rootPath) returns
OpenRefreshDone ==
    /\ op.pc = "refresh"
    /\ fileTree' = readProjectTree(disk[op.root])
    /\ readmeContent' = ReadmeOf(disk[op.root])
    /\ op' = [op EXCEPT !.pc = "history"]
    /\ out' = NoOut
    /\ UNCHANGED mainRest
    /\ UNCHANGED <<projectRoot, activeFile, activeFileContent, selectedNodes, recentlyUpdatedPaths, chatHistory, isLoading, error, notification, chat, chatSeq, aiProvider, sm, sends, loads>>
    /\ EditorIdle /\ UNCHANGED otherVars

\* handleOpenProject: readChatHistory returns; initializeChat for gemini
\* (keyOk: whether an API key is stored)
OpenHistoryDone(keyOk) ==
    /\ op.pc = "history"
    /\ chatHistory' = chatJson[op.root]
    /\ IF aiProvider = "gemini" /\ keyOk
       THEN /\ chatSeq' = chatSeq + 1
            /\ chat' = [id |-> chatSeq + 1, history |-> chatJson[op.root]]
       ELSE UNCHANGED <<chat, chatSeq>>
    /\ IF aiProvider = "gemini" /\ ~keyOk
       THEN error' = "API key is not set. Please add it in Settings." /\ UNCHANGED notification
       ELSE notification' = "Project opened successfully." /\ UNCHANGED error
    /\ op' = NoOp
    /\ out' = NoOut
    /\ UNCHANGED mainRest
    /\ UNCHANGED <<projectRoot, fileTree, activeFile, activeFileContent, selectedNodes, recentlyUpdatedPaths, readmeContent, isLoading, aiProvider, sm, sends, loads>>
    /\ EditorIdle /\ UNCHANGED otherVars

\* handleCloseProject and the confirmation: resetState; the main process is not told
CloseProject ==
    /\ projectRoot # NoRoot
    /\ resetState(NoRoot)
    /\ out' = [NoOut EXCEPT !.kind = "closed", !.root = projectRoot]
    /\ UNCHANGED mainRest
    /\ UNCHANGED <<chatSeq, aiProvider, sm, sends, op>>
    /\ EditorIdle /\ UNCHANGED otherVars

\* the loadContent effect's readFile returns
LoadContentDone(r) ==
    /\ r \in loads
    /\ loads' = loads \ {r}
    /\ IF IsFile(disk[r.root][r.path])
       THEN activeFileContent' = disk[r.root][r.path] /\ UNCHANGED error
       ELSE activeFileContent' = "" /\ error' = "Failed to read file"
    /\ out' = [NoOut EXCEPT !.kind = "loaded", !.op = IF IsFile(disk[r.root][r.path]) THEN "ok" ELSE "failed", !.root = r.root]
    /\ UNCHANGED mainRest
    /\ UNCHANGED <<projectRoot, fileTree, activeFile, selectedNodes, recentlyUpdatedPaths, readmeContent, chatHistory, isLoading, notification, chat, chatSeq, aiProvider, sm, sends, op>>
    /\ EditorIdle /\ UNCHANGED otherVars

\* faulty variant: a failed re-read empties the buffer and keeps the file active
handleUpdateCatchKeep == UNCHANGED activeFile /\ activeFileContent' = ""

\* handleUpdate's catch: the file is deselected
handleUpdateCatch == activeFile' = NoPath /\ activeFileContent' = ""

\* the renderer receives 'project-updated': handleUpdate, when a project is open
OnProjectUpdated ==
    /\ updates > 0
    /\ updates' = updates - 1
    /\ IF projectRoot = NoRoot
       THEN UNCHANGED <<fileTree, readmeContent, activeFile, activeFileContent>>
       ELSE /\ fileTree' = readProjectTree(disk[projectRoot])
            /\ readmeContent' = ReadmeOf(disk[projectRoot])
            /\ IF activeFile = NoPath THEN UNCHANGED <<activeFile, activeFileContent>>
               ELSE IF IsFile(disk[projectRoot][activeFile])
               THEN activeFileContent' = disk[projectRoot][activeFile] /\ UNCHANGED activeFile
               ELSE handleUpdateCatch
    /\ out' = [NoOut EXCEPT !.kind = "updated", !.root = projectRoot,
                            !.op = IF projectRoot = NoRoot THEN "unheard" ELSE IF activeFile = NoPath THEN "listed"
                                   ELSE IF IsFile(disk[projectRoot][activeFile]) THEN "reread" ELSE "cleared"]
    /\ UNCHANGED <<watcher, watchers, isInternalChange, timers, pending, disk, chatJson, writeCalls, opened, externals, nodeOps>>
    /\ UNCHANGED <<projectRoot, selectedNodes, recentlyUpdatedPaths, chatHistory, isLoading, error, notification, chat, chatSeq, aiProvider, sm, sends, op, loads>>
    /\ EditorIdle /\ UNCHANGED otherVars

\* ------------------------------------------------------ node operations
\* what the user may create, rename to and upload
NewFiles == {<<"b.ts">>}
NewFolders == {<<"src">>}
NewNames == {"b.ts"}
Touch(opName) == [NoOut EXCEPT !.kind = "touch", !.op = opName, !.armed = isInternalChange, !.root = projectRoot]
Refreshed(d) == fileTree' = readProjectTree(d) /\ readmeContent' = ReadmeOf(d)

\* handleAddNode(path, false): create-file writes '' to the path
HandleAddFile(path) ==
    /\ projectRoot # NoRoot /\ nodeOps < MaxNodeOps
    /\ nodeOps' = nodeOps + 1
    /\ recentlyUpdatedPaths' = {}
    /\ LET d == disk[projectRoot]
           fails == d[path] = Dir \/ (Parent(path) # NoPath /\ d[Parent(path)] # Dir)
       IN IF fails
          THEN /\ error' = "Failed to create file"
               /\ out' = NoOut
               /\ UNCHANGED <<disk, pending, activeFile, activeFileContent, loads, fileTree, readmeContent>>
          ELSE /\ disk' = [disk EXCEPT ![projectRoot][path] = ""]
               /\ pending' = Observe(pending, projectRoot, path, IF d[path] = Absent THEN "add" ELSE "change", "create-file")
               /\ out' = Touch("create-file")
               /\ activeFile' = path
               /\ LoadEffect(path, projectRoot, activeFileContent)
               /\ Refreshed(disk'[projectRoot])
               /\ UNCHANGED error
    /\ UNCHANGED <<watcher, watchers, isInternalChange, timers, chatJson, updates, writeCalls, opened, externals>>
    /\ UNCHANGED <<projectRoot, selectedNodes, chatHistory, isLoading, notification, chat, chatSeq, aiProvider, sm, sends, op>>
    /\ EditorIdle /\ UNCHANGED otherVars

\* handleAddNode(path, true): create-folder is mkdir -p
HandleAddFolder(path) ==
    /\ projectRoot # NoRoot /\ nodeOps < MaxNodeOps
    /\ nodeOps' = nodeOps + 1
    /\ recentlyUpdatedPaths' = {}
    /\ LET d == disk[projectRoot]
       IN IF MkdirFails(d, path)
          THEN /\ error' = "Failed to create folder"
               /\ out' = NoOut
               /\ UNCHANGED <<disk, pending, fileTree, readmeContent>>
          ELSE /\ disk' = [disk EXCEPT ![projectRoot] = MkdirP(d, path)]
               /\ pending' = ObserveAll(pending, projectRoot, NewDirs(d, path), "addDir", "create-folder")
               /\ out' = Touch("create-folder")
               /\ Refreshed(disk'[projectRoot])
               /\ UNCHANGED error
    /\ UNCHANGED <<watcher, watchers, isInternalChange, timers, chatJson, updates, writeCalls, opened, externals>>
    /\ UNCHANGED <<projectRoot, activeFile, activeFileContent, selectedNodes, chatHistory, isLoading, notification, chat, chatSeq, aiProvider, sm, sends, op, loads>>
    /\ EditorIdle /\ UNCHANGED otherVars

\* handleDeleteNodes({path}): delete-node is rm -rf and never fails on a missing path
HandleDeleteNodes(path) ==
    /\ projectRoot # NoRoot /\ nodeOps < MaxNodeOps
    /\ \E n \in fileTree : n.path = path
    /\ nodeOps' = nodeOps + 1
    /\ recentlyUpdatedPaths' = {}
    /\ LET d == disk[projectRoot]
           af == IF activeFile = path THEN NoPath ELSE activeFile
       IN /\ disk' = [disk EXCEPT ![projectRoot] = RmRf(d, path)]
          /\ pending' = ObserveAll(ObserveAll(pending, projectRoot, {q \in Removed(d, path) : d[q] = Dir}, "unlinkDir", "delete-node"),
                                   projectRoot, {q \in Removed(d, path) : d[q] # Dir}, "unlink", "delete-node")
          /\ activeFile' = af
          /\ LoadEffect(af, projectRoot, activeFileContent)
    /\ out' = Touch("delete-node")
    /\ selectedNodes' = {}
    /\ Refreshed(disk'[projectRoot])
    /\ notification' = "1 item(s) deleted."
    /\ UNCHANGED <<watcher, watchers, isInternalChange, timers, chatJson, updates, writeCalls, opened, externals>>
    /\ UNCHANGED <<projectRoot, chatHistory, isLoading, error, chat, chatSeq, aiProvider, sm, sends, op>>
    /\ EditorIdle /\ UNCHANGED otherVars

\* fs.rename(old, new): the subtree under old moves under new
RenameFails(d, old, new) == d[old] = Absent \/ d[new] = Dir \/ (d[old] = Dir /\ d[new] # Absent)
Renamed(d, old, new) ==
    [q \in DOMAIN d |-> IF IsPrefix(new, q) THEN (IF Rebase(q, new, old) \in DOMAIN d THEN d[Rebase(q, new, old)] ELSE Absent)
                        ELSE IF IsPrefix(old, q) THEN Absent ELSE d[q]]

\* handleRenameNode(oldPath, newName): rename-node, then the active file follows
HandleRenameNode(oldPath, newName) ==
    /\ projectRoot # NoRoot /\ nodeOps < MaxNodeOps
    /\ \E n \in fileTree : n.path = oldPath
    /\ nodeOps' = nodeOps + 1
    /\ recentlyUpdatedPaths' = {}
    /\ LET d == disk[projectRoot]
           newRelativePath == Append(Parent(oldPath), newName)
           moved == Removed(d, oldPath)
           af == IF activeFile = oldPath THEN newRelativePath ELSE activeFile
       IN /\ newRelativePath # oldPath
          /\ IF RenameFails(d, oldPath, newRelativePath)
             THEN /\ error' = "Failed to rename"
                  /\ out' = NoOut
                  /\ UNCHANGED <<disk, pending, activeFile, activeFileContent, loads, fileTree, readmeContent, notification>>
             ELSE /\ disk' = [disk EXCEPT ![projectRoot] = Renamed(d, oldPath, newRelativePath)]
                  /\ pending' = ObserveAll(ObserveAll(pending, projectRoot, moved, "unlink", "rename-node"),
                                           projectRoot, {Rebase(q, oldPath, newRelativePath) : q \in moved}, "add", "rename-node")
                  /\ out' = Touch("rename-node")
                  /\ activeFile' = af
                  /\ LoadEffect(af, projectRoot, activeFileContent)
                  /\ Refreshed(disk'[projectRoot])
                  /\ notification' = "Renamed successfully."
                  /\ UNCHANGED error
    /\ UNCHANGED <<watcher, watchers, isInternalChange, timers, chatJson, updates, writeCalls, opened, externals>>
    /\ UNCHANGED <<projectRoot, selectedNodes, chatHistory, isLoading, chat, chatSeq, aiProvider, sm, sends, op>>
    /\ EditorIdle /\ UNCHANGED otherVars

\* handleUploadFile with a file picked: upload-file copies it into the root
HandleUploadFile(name) ==
    /\ projectRoot # NoRoot /\ nodeOps < MaxNodeOps
    /\ nodeOps' = nodeOps + 1
    /\ recentlyUpdatedPaths' = {}
    /\ LET d == disk[projectRoot]
           destinationPath == <<name>>
       IN IF WriteFails(d, destinationPath)
          THEN /\ error' = "Failed to upload file"
               /\ out' = NoOut
               /\ UNCHANGED <<disk, pending, activeFile, activeFileContent, loads, fileTree, readmeContent, notification>>
          ELSE /\ disk' = [disk EXCEPT ![projectRoot][destinationPath] = "up"]
               /\ pending' = Observe(pending, projectRoot, destinationPath, IF d[destinationPath] = Absent THEN "add" ELSE "change", "upload-file")
               /\ out' = Touch("upload-file")
               /\ Refreshed(disk'[projectRoot])
               /\ activeFile' = destinationPath
               /\ LoadEffect(destinationPath, projectRoot, activeFileContent)
               /\ notification' = "File uploaded successfully!"
               /\ UNCHANGED error
    /\ UNCHANGED <<watcher, watchers, isInternalChange, timers, chatJson, updates, writeCalls, opened, externals>>
    /\ UNCHANGED <<projectRoot, selectedNodes, chatHistory, isLoading, chat, chatSeq, aiProvider, sm, sends, op>>
    /\ EditorIdle /\ UNCHANGED otherVars

\* handleSelectNode(path, false, isFolder): a plain click
HandleSelectNode(node) ==
    /\ projectRoot # NoRoot
    /\ node \in fileTree
    /\ selectedNodes' = {node.path}
    /\ LET af == IF node.type = "file" THEN node.path ELSE activeFile
       IN activeFile' = af /\ LoadEffect(af, projectRoot, activeFileContent)
    /\ out' = NoOut
    /\ UNCHANGED mainRest
    /\ UNCHANGED <<projectRoot, fileTree, recentlyUpdatedPaths, readmeContent, chatHistory, isLoading, error, notification, chat, chatSeq, aiProvider, sm, sends, op>>
    /\ EditorIdle /\ UNCHANGED otherVars

\* ---------------------------------------------------------- handleMoveNodes
\* how many paths are dragged at once
MaxMove == 2
NoMove == [pc |-> "idle", root |-> NoRoot, sourcePaths |-> <<>>, destinationPath |-> NoPath, i |-> 0]
\* the dragged paths: the selection in the order it was made, or the dragged node
Draggable(tree) == {<<n.path>> : n \in tree} \cup {<<n.path, m.path>> : n \in tree, m \in tree}
\* newRelativePath of a source: the destination folder (null is the root) and the base name
MoveTarget(source, destinationPath) == Append(destinationPath, Last(source))

\* handleDrop / handleDropOnContainer then handleMoveNodes up to its first await:
\* the indicators are cleared and the first rename-node is invoked
HandleMoveNodes(sourcePaths, destinationPath) ==
    /\ projectRoot # NoRoot /\ nodeOps < MaxNodeOps /\ mv.pc = "idle"
    /\ Len(sourcePaths) \in 1..MaxMove
    /\ \A j \in 1..Len(sourcePaths) : \E n \in fileTree : n.path = sourcePaths[j]
    /\ \A j, k \in 1..Len(sourcePaths) : j # k => sourcePaths[j] # sourcePaths[k]
    \* a drop on a node: the target is a folder that is no source and under no source
    /\ destinationPath # NoPath =>
          /\ \E n \in fileTree : n.path = destinationPath /\ n.type = "folder"
          /\ \A j \in 1..Len(sourcePaths) : ~IsPrefix(sourcePaths[j], destinationPath)
    \* the paths the move can produce are paths of the model
    /\ \A j \in 1..Len(sourcePaths) : \A q \in Removed(disk[projectRoot], sourcePaths[j]) :
          Rebase(q, sourcePaths[j], MoveTarget(sourcePaths[j], destinationPath)) \in DiskPaths
    /\ nodeOps' = nodeOps + 1
    /\ recentlyUpdatedPaths' = {}
    /\ mv' = [pc |-> "rename", root |-> projectRoot, sourcePaths |-> sourcePaths, destinationPath |-> destinationPath, i |-> 1]
    /\ out' = NoOut
    /\ UNCHANGED <<watcher, watchers, isInternalChange, timers, pending, disk, chatJson, updates, writeCalls, opened, externals>>
    /\ UNCHANGED <<projectRoot, fileTree, activeFile, activeFileContent, selectedNodes, readmeContent, chatHistory, isLoading, error, notification, chat, chatSeq, aiProvider, sm, sends, op, loads>>
    /\ EditorIdle /\ UNCHANGED pureVars

\* rename-node for the i-th source answers, and handleMoveNodes runs to its next
\* await: the next rename, or after the last one the refresh and the
\* notification, or its catch. io "fail" is a rename the filesystem refuses.
MoveRenameDone(io) ==
    /\ mv.pc = "rename"
    /\ LET d == disk[mv.root]
           source == mv.sourcePaths[mv.i]
           newRelativePath == MoveTarget(source, mv.destinationPath)
           moved == Removed(d, source)
           fails == io = "fail" \/ (source # newRelativePath /\ RenameFails(d, source, newRelativePath))
       IN IF fails
          THEN /\ error' = "Failed to move items"
               /\ mv' = NoMove
               /\ out' = [NoOut EXCEPT !.kind = "moveFailed", !.op = "rename-node", !.root = mv.root, !.w = mv.i]
               /\ UNCHANGED <<disk, pending, selectedNodes, fileTree, readmeContent, notification>>
          ELSE /\ disk' = [disk EXCEPT ![mv.root] = Renamed(d, source, newRelativePath)]
               /\ pending' = IF source = newRelativePath THEN pending
                             ELSE ObserveAll(ObserveAll(pending, mv.root, moved, "unlink", "rename-node"),
                                             mv.root, {Rebase(q, source, newRelativePath) : q \in moved}, "add", "rename-node")
               /\ UNCHANGED error
               /\ IF mv.i < Len(mv.sourcePaths)
                  THEN /\ mv' = [mv EXCEPT !.i = @ + 1]
                       /\ out' = [NoOut EXCEPT !.kind = "touch", !.op = "rename-node", !.armed = isInternalChange, !.root = mv.root]
                       /\ UNCHANGED <<selectedNodes, fileTree, readmeContent, notification>>
                  ELSE /\ mv' = NoMove
                       /\ out' = [NoOut EXCEPT !.kind = "moved", !.op = "rename-node", !.armed = isInternalChange, !.root = mv.root, !.w = mv.i]
                       /\ selectedNodes' = {}
                       /\ Refreshed(disk'[mv.root])
                       /\ notification' = "Items moved successfully."
    /\ UNCHANGED <<watcher, watchers, isInternalChange, timers, chatJson, updates, writeCalls, opened, externals, nodeOps>>
    /\ UNCHANGED <<projectRoot, activeFile, activeFileContent, recentlyUpdatedPaths, chatHistory, isLoading, chat, chatSeq, aiProvider, sm, sends, op, loads>>
    /\ EditorIdle /\ UNCHANGED pureVars

\* ------------------------------------------------- the editor and the save
NoEdit == [root |-> NoRoot, path |-> NoPath, content |-> ""]
\* what the user may type
Typed == {"e1", "e2"}

\* faulty variant: the pending timer is left to fire
ClearTimeoutNone(ts, ref) == ts

\* clearTimeout(debounceWriteFileRef.current)
ClearTimeout(ts, ref) == {t \in ts : t.id # ref}

\* debouncedWriteFile: cancel the timer the ref holds, start one of 300 ms
debouncedWriteFile(projectR, fileP, content) ==
    /\ writeTimers' = ClearTimeout(writeTimers, debounceWriteFileRef)
                        \cup {[id |-> debounceWriteFileRef + 1, root |-> projectR, path |-> fileP, content |-> content, left |-> DebounceWrite]}
    /\ debounceWriteFileRef' = debounceWriteFileRef + 1
    /\ bursts' = IF writeTimers = {} THEN bursts + 1 ELSE bursts
    /\ lastEdit' = [root |-> projectR, path |-> fileP, content |-> content]

\* handleCodeChange as the closure that captured (af, pr) runs it
handleCodeChange(af, pr, newCode) ==
    /\ recentlyUpdatedPaths' = {}
    /\ IF af = NoPath \/ pr = NoRoot
       THEN UNCHANGED <<activeFileContent, writeTimers, debounceWriteFileRef, bursts, lastEdit>>
       ELSE /\ activeFileContent' = newCode
            /\ debouncedWriteFile(pr, af, newCode)

\* what an editor step leaves alone
EditorStepRest ==
    /\ UNCHANGED mainRest
    /\ UNCHANGED otherVars
    /\ UNCHANGED <<projectRoot, fileTree, activeFile, selectedNodes, readmeContent, chatHistory, isLoading, error, notification, chat, chatSeq, aiProvider, sm, sends, op, loads>>

\* components/CodeDisplay.tsx: the textarea's onChange calls onCodeChange directly
TextAreaChange(newCode) ==
    /\ edits < MaxEdits
    /\ activeFile # NoPath /\ error = "" /\ ~(isLoading /\ fileTree = {})
    /\ ~isEditing
    /\ edits' = edits + 1
    /\ handleCodeChange(activeFile, projectRoot, newCode)
    /\ out' = [NoOut EXCEPT !.kind = "edit", !.op = newCode]
    /\ UNCHANGED <<editText, isEditing, editorTimers, editWrites>>
    /\ EditorStepRest

\* the editor with its own buffer: handleClickToEdit
HandleClickToEdit ==
    /\ activeFile # NoPath /\ ~isEditing
    /\ edits < MaxEdits
    /\ edits' = edits + 1
    /\ editText' = activeFileContent
    /\ isEditing' = TRUE
    /\ out' = NoOut
    /\ UNCHANGED <<editorTimers, writeTimers, debounceWriteFileRef, bursts, editWrites, lastEdit>>
    /\ UNCHANGED <<recentlyUpdatedPaths, activeFileContent>>
    /\ EditorStepRest

\* handleTextAreaChange: the editor's buffer at once, onCodeChange 500 ms later
HandleTextAreaChange(value) ==
    /\ isEditing
    /\ edits < MaxEdits
    /\ edits' = edits + 1
    /\ editText' = value
    /\ editorTimers' = {[root |-> projectRoot, path |-> activeFile, content |-> value, left |-> DebounceEdit]}
    /\ out' = NoOut
    /\ UNCHANGED <<isEditing, writeTimers, debounceWriteFileRef, bursts, editWrites, lastEdit>>
    /\ UNCHANGED <<recentlyUpdatedPaths, activeFileContent>>
    /\ EditorStepRest

\* the callback of debouncedCodeChange's timer
EditorDebounceFire(t) ==
    /\ t \in editorTimers
    /\ t.left = 0
    /\ editorTimers' = editorTimers \ {t}
    /\ handleCodeChange(t.path, t.root, t.content)
    /\ out' = [NoOut EXCEPT !.kind = "edit", !.op = t.content]
    /\ UNCHANGED <<editText, isEditing, edits, editWrites>>
    /\ EditorStepRest

\* handleBlur: the editor's timer is cancelled and a dirty buffer handed to onCodeChange
HandleBlur ==
    /\ isEditing
    /\ isEditing' = FALSE
    /\ editorTimers' = {}
    /\ IF editText # activeFileContent
       THEN /\ handleCodeChange(activeFile, projectRoot, editText)
            /\ out' = [NoOut EXCEPT !.kind = "blur", !.op = editText, !.quiet = FALSE]
       ELSE /\ UNCHANGED <<recentlyUpdatedPaths, activeFileContent, writeTimers, debounceWriteFileRef, bursts, lastEdit>>
            /\ out' = [NoOut EXCEPT !.kind = "blur", !.op = editText, !.quiet = TRUE]
    /\ UNCHANGED <<editText, edits, editWrites>>
    /\ EditorStepRest

\* the callback of debouncedWriteFile's timer: write-file is invoked
DebounceFire(t) ==
    /\ t \in writeTimers
    /\ t.left = 0
    /\ writeTimers' = writeTimers \ {t}
    /\ writeCalls' = writeCalls \cup {[caller |-> "edit", id |-> t.id, root |-> t.root, path |-> t.path, content |-> t.content, stage |-> "sent"]}
    /\ editWrites' = editWrites + 1
    /\ out' = [NoOut EXCEPT !.kind = "save", !.op = t.content, !.root = t.root]
    /\ UNCHANGED <<watcher, watchers, isInternalChange, timers, pending, disk, chatJson, updates, opened, externals, nodeOps>>
    /\ UNCHANGED sessionVars
    /\ UNCHANGED <<editText, isEditing, editorTimers, debounceWriteFileRef, edits, bursts, lastEdit, mv>>
    /\ UNCHANGED pureVars

\* write-file for the debounced save, from its first await to the end, and the
\* timer callback's catch
EditWriteFinish(c, io) ==
    /\ c \in writeCalls
    /\ c.stage = "running" /\ c.caller = "edit"
    /\ LET d == disk[c.root]
           mkdirOk == ~MkdirFails(d, Parent(c.path)) /\ io # "mkdir"
           writeOk == mkdirOk /\ ~WriteFails(d, c.path) /\ io # "write"
       IN /\ disk' = [disk EXCEPT ![c.root] = DiskAfterWrite(d, c.path, c.content, mkdirOk, writeOk)]
          /\ pending' = SeenAfterWrite(pending, d, c.root, c.path, mkdirOk, writeOk)
          /\ timers' = Schedule(timers, ResetDelay)
          /\ error' = IF writeOk THEN error ELSE "Failed to save file"
          /\ out' = [NoOut EXCEPT !.kind = IF writeOk THEN "saved" ELSE "saveFailed", !.op = c.content, !.armed = isInternalChange, !.root = c.root]
    /\ writeCalls' = writeCalls \ {c}
    /\ UNCHANGED <<watcher, watchers, isInternalChange, chatJson, updates, opened, externals, nodeOps>>
    /\ UNCHANGED <<projectRoot, fileTree, activeFile, activeFileContent, selectedNodes, recentlyUpdatedPaths, readmeContent, chatHistory, isLoading, notification, chat, chatSeq, aiProvider, sm, sends, op, loads>>
    /\ EditorIdle /\ UNCHANGED otherVars

\* ------------------------------------------------------- context building
\* A piece of the context text. The text is the sequence of its pieces.
Piece(kind, path, lang, text, pre) == [kind |-> kind, path |-> path, lang |-> lang, text |-> text, pre |-> pre]
\* name.split('.').pop() || '': the extension, or the whole name when it has no dot
Lang(name) == IF name \in {"a.ts", "b.ts"} THEN "ts" ELSE IF name = "README.md" THEN "md" ELSE name
\* localeCompare on the names in use
NameRank(name) == CHOOSE r \in 1..5 : <<"a.ts", "b.ts", "dist", "lib", "src">>[r] = name

FileNode(p) == [type |-> "file", name |-> Last(p), path |-> p, children |-> <<>>]
FolderNode(p, children) == [type |-> "folder", name |-> Last(p), path |-> p, children |-> children]
\* trees as read-project-tree returns them, in the order readdir lists the entries
ContextTrees ==
    { <<>>,
      <<FolderNode(<<"src">>, <<>>)>>,
      <<FileNode(<<"a.ts">>)>>,
      <<FileNode(<<"b.ts">>), FileNode(<<"a.ts">>)>>,
      <<FileNode(<<"a.ts">>), FolderNode(<<"src">>, <<FileNode(<<"src", "b.ts">>)>>)>>,
      <<FileNode(<<"b.ts">>), FolderNode(<<"src">>, <<FileNode(<<"src", "b.ts">>)>>), FileNode(<<"a.ts">>)>> }
\* what read-file returns for a path
ContextContent(p) == IF p = <<"a.ts">> THEN "old" ELSE IF p = <<"b.ts">> THEN "bee" ELSE "in"

NoCall == [pc |-> "idle", contextParts |-> <<>>, reads |-> {}, result |-> <<>>]
NoContext == [tree |-> <<>>, activeFile |-> NoPath, activeFileContent |-> "", full |-> [k \in 1..2 |-> NoCall], summary |-> [k \in 1..2 |-> NoCall]]

\* the file nodes in the order processNode is called on them
RECURSIVE FileNodes(_)
FileNodes(nodes) ==
    IF nodes = <<>> THEN <<>>
    ELSE (IF Head(nodes).type = "file" THEN <<Head(nodes)>> ELSE FileNodes(Head(nodes).children)) \o FileNodes(Tail(nodes))
FilePart(path, content) == Piece("file", path, Lang(Last(path)), content, <<>>)
RECURSIVE JoinParts(_)
\* contextParts.join('\n\n---\n')
JoinParts(parts) ==
    IF Len(parts) <= 1 THEN parts ELSE <<Head(parts), Piece("---", <<>>, "", "", <<>>)>> \o JoinParts(Tail(parts))
NoFilesMarker == Piece("CONTEXT: This is a new project with no existing files.", <<>>, "", "", <<>>)

\* getProjectContextString up to the point where every processNode is suspended
\* on its read-file: the active file's part is pushed at once, from the buffer
ContextCall(k) ==
    /\ cx.full[k].pc = "idle"
    /\ LET files == FileNodes(cx.tree)
           IsActive(n) == n.path = cx.activeFile
           active == SelectSeq(files, IsActive)
       IN cx' = [cx EXCEPT !.full[k] = [pc |-> "reading",
                                         contextParts |-> [i \in 1..Len(active) |-> FilePart(active[i].path, cx.activeFileContent)],
                                         reads |-> {files[i].path : i \in 1..Len(files)} \ {cx.activeFile},
                                         result |-> <<>>]]
    /\ UNCHANGED <<mainVars, sessionVars, editVars, mv, px, an>>

\* a read-file answers and its processNode pushes the file's part
ContextReadDone(k, path) ==
    /\ cx.full[k].pc = "reading"
    /\ path \in cx.full[k].reads
    /\ cx' = [cx EXCEPT !.full[k].reads = @ \ {path},
                        !.full[k].contextParts = Append(@, FilePart(path, ContextContent(path)))]
    /\ UNCHANGED <<mainVars, sessionVars, editVars, mv, px, an>>

\* Promise.all resolves: the text is put together
ContextReturn(k) ==
    /\ cx.full[k].pc = "reading"
    /\ cx.full[k].reads = {}
    /\ LET parts == cx.full[k].contextParts
       IN cx' = [cx EXCEPT !.full[k].pc = "done",
                           !.full[k].result = IF Len(parts) = 0 THEN <<NoFilesMarker>>
                                              ELSE <<Piece("CONTEXT: The current state of the project files is as follows:", <<>>, "", "", <<>>),
                                                     Piece("---", <<>>, "", "", <<>>)>>
                                                   \o JoinParts(parts) \o <<Piece("---", <<>>, "", "", <<>>)>>]
    /\ UNCHANGED <<mainVars, sessionVars, editVars, mv, px, an>>

\* sortTree: folders before files, then by name
SortsBefore(a, b) == (a.type = "folder" /\ b.type = "file") \/ (a.type = b.type /\ NameRank(a.name) < NameRank(b.name))
SortedNodes(nodes) ==
    LET n == Len(nodes)
    IN IF n = 0 THEN <<>>
       ELSE LET perm == CHOOSE f \in [1..n -> 1..n] : (\A i, j \in 1..n : i < j => SortsBefore(nodes[f[i]], nodes[f[j]]))
            IN [i \in 1..n |-> nodes[perm[i]]]
RECURSIVE TreeLines(_, _, _)
\* buildTreeString(nodes, prefix), from the index-th sorted node on
TreeLines(sortedNodes, prefix, index) ==
    IF index > Len(sortedNodes) THEN <<>>
    ELSE LET node == sortedNodes[index]
             isLast == index = Len(sortedNodes)
             line == Piece("line", <<>>, IF isLast THEN "+-- " ELSE "|-- ", node.name, prefix)
             below == IF node.type = "folder" /\ Len(node.children) > 0
                      THEN TreeLines(SortedNodes(node.children), Append(prefix, IF isLast THEN "    " ELSE "|   "), 1)
                      ELSE <<>>
         IN <<line>> \o below \o TreeLines(sortedNodes, prefix, index + 1)
getFileTreeContextString(tree, af, content) ==
    <<Piece("CONTEXT:", <<>>, "", "", <<>>), Piece("Project file structure:", <<>>, "", "", <<>>)>>
    \o TreeLines(SortedNodes(tree), <<>>, 1)
    \o (IF af # NoPath /\ content # "" THEN <<Piece("Content of active file", af, Lang(Last(af)), content, <<>>)>>
        ELSE IF af # NoPath THEN <<Piece("No content available for active file", af, "", "", <<>>)>>
        ELSE <<>>)

\* getFileTreeContextString is called: it runs to its end
SummaryCall(k) ==
    /\ cx.summary[k].pc = "idle"
    /\ cx' = [cx EXCEPT !.summary[k].pc = "done",
                        !.summary[k].result = getFileTreeContextString(cx.tree, cx.activeFile, cx.activeFileContent)]
    /\ UNCHANGED <<mainVars, sessionVars, editVars, mv, px, an>>

\* --------------------------------------------------------- response parsing
Backends == {"gemini", "ollama", "chatgpt"}
\* A JSON value by the types the parsers look at. An element of files is an
\* object, null or a string; a member is a string, a number or missing.
MemberTypes == {"string", "number", "missing"}
Elements == [kind : {"object"}, fileName : MemberTypes, code : MemberTypes]
              \cup {[kind |-> k, fileName |-> "missing", code |-> "missing"] : k \in {"null", "string"}}
\* how many elements a response's files list has
MaxElements == 2
ElementLists == UNION {[1..n -> Elements] : n \in 0..MaxElements}
NoJson(kind) == [kind |-> kind, files |-> "missing", items |-> <<>>, readmeContent |-> "missing"]
JsonValues ==
    {NoJson("not json"), NoJson("number")}
    \cup [kind : {"object"}, files : {"missing", "string"}, items : {<<>>}, readmeContent : MemberTypes]
    \cup [kind : {"object"}, files : {"list"}, items : ElementLists, readmeContent : MemberTypes]
\* the text of a response: empty, or a JSON text bare, in a ```json fence,
\* between <JSON_START> and <JSON_END>, or with prose around it
ResponseTexts == {[wrap |-> "empty", json |-> NoJson("not json")]} \cup [wrap : {"none", "fence", "tags", "prose"}, json : JsonValues]
\* the text of an object, and of the broken JSON in use, starts with { and ends with }
HasBraces(json) == json.kind \in {"object", "not json"}

NoParse == [responseText |-> [wrap |-> "empty", json |-> NoJson("not json")],
            parsed |-> [b \in Backends |-> "idle"], calls |-> [b \in Backends |-> <<>>]]

\* the string each parser hands to JSON.parse: "json" when it is the JSON text
\* alone, "other" when it is a text JSON.parse rejects, "none" when the parser
\* gave up before
Extracted(backend, raw) ==
    IF raw.wrap = "empty" THEN "none"
    ELSE IF backend = "ollama" THEN (IF raw.wrap = "none" THEN "json" ELSE "other")
    ELSE IF backend = "gemini" THEN (IF raw.wrap = "tags" THEN "json" ELSE IF HasBraces(raw.json) THEN "json" ELSE "none")
    ELSE (IF HasBraces(raw.json) THEN "json" ELSE "none")

ElementValid(f) == f.kind = "object" /\ f.fileName = "string" /\ f.code = "string"
\* the test each parser makes on the parsed value
Accepts(backend, json) ==
    /\ json.kind = "object"
    /\ json.files = "list"
    /\ json.readmeContent = "string"
    /\ backend = "ollama" => \A i \in 1..Len(json.items) : ElementValid(json.items[i])

\* parseAIResponse / parseOllamaResponse on the response text
ParseResponse(backend) ==
    /\ px.parsed[backend] = "idle"
    /\ px' = [px EXCEPT !.parsed[backend] =
                IF Extracted(backend, px.responseText) = "json" /\ px.responseText.json.kind # "not json" /\ Accepts(backend, px.responseText.json)
                THEN "returned" ELSE "malformed"]
    /\ UNCHANGED <<mainVars, sessionVars, editVars, mv, cx, an>>

RECURSIVE WriteFileCalls(_)
\* for (const file of response.files) await writeFile({relativePath: file.fileName, content: file.code}):
\* reading a member of null throws and ends the loop
WriteFileCalls(items) ==
    IF items = <<>> \/ Head(items).kind = "null" THEN <<>>
    ELSE <<[relativePath |-> Head(items).fileName, content |-> Head(items).code]>> \o WriteFileCalls(Tail(items))

\* handleSendMessage's write loop over a response the parser returned
ApplyResponse(backend) ==
    /\ px.parsed[backend] = "returned"
    /\ px' = [px EXCEPT !.parsed[backend] = "applied", !.calls[backend] = WriteFileCalls(px.responseText.json.items)]
    /\ UNCHANGED <<mainVars, sessionVars, editVars, mv, cx, an>>

\* ------------------------------------------------ the typed-out prompt cycle
\* The third App shows each returned file being typed before it writes the
\* next one (handleSendMessage with animateFileByFile).  The cycle waits, for
\* each file, on a promise that only CodeDisplay's animation effect resolves.
\* an.cb is onAnimationComplete.cb: 0 for null, i for the resolve function of
\* the i-th file's promise.  an.animating is the callback captured by the
\* typing animation whose timeout is pending, 0 when none is.
Displays == {"part_002", "part_003"}
Typing == "<typing>"
AnimatedFiles == {[fileName |-> <<"a.ts">>, code |-> "A"], [fileName |-> <<"b.ts">>, code |-> "B"],
                  [fileName |-> <<"a.ts">>, code |-> "old"], [fileName |-> <<"b.ts">>, code |-> "A"]}
AnimatedResponses == {<<>>} \cup {<<f>> : f \in AnimatedFiles} \cup {<<f, g>> : f \in AnimatedFiles, g \in AnimatedFiles}
AnimatedDisk == [p \in {<<"a.ts">>, <<"b.ts">>} |-> IF p = <<"a.ts">> THEN "old" ELSE Absent]
NoAnimation == [pc |-> "off", display |-> "part_003", useTypingEffect |-> TRUE, files |-> <<>>, i |-> 0,
                isLoading |-> FALSE, cb |-> 0, animating |-> 0, activeFile |-> NoPath, activeFileContent |-> "",
                editText |-> "", reads |-> {}, disk |-> AnimatedDisk, sent |-> FALSE, updated |-> FALSE]

\* const shouldAnimate = useTypingEffect && isLoading && onAnimationComplete
shouldAnimate(a) == a.useTypingEffect /\ a.isLoading /\ a.cb # 0

\* CodeDisplay's animation effect, run when one of its dependencies (code,
\* fileName, isLoading, useTypingEffect, onAnimationComplete) changed.  The
\* cleanup of the run before cancels the pending timeout.  part_003 returns
\* at once when the code equals the text it shows; both start typing only
\* when shouldAnimate, and otherwise show the code without calling the callback.
AnimationEffect(a) ==
    IF a.display = "part_003"
    THEN IF a.activeFileContent = a.editText THEN [a EXCEPT !.animating = 0]
         ELSE IF shouldAnimate(a) THEN [a EXCEPT !.animating = a.cb, !.editText = Typing]
         ELSE [a EXCEPT !.animating = 0, !.editText = a.activeFileContent]
    ELSE IF shouldAnimate(a) THEN [a EXCEPT !.animating = a.cb, !.editText = Typing]
         ELSE [a EXCEPT !.animating = 0, !.editText = a.activeFileContent]

\* finally { setIsLoading(false); setOnAnimationComplete({ cb: null }) }
AnimatedFinally(a) == AnimationEffect([a EXCEPT !.pc = "idle", !.isLoading = FALSE, !.cb = 0])

\* the for loop of animateFileByFile goes on after the i-th promise resolved:
\* the write of the next file is issued, or the steps after the loop begin
AnimatedResume(a) ==
    IF a.i < Len(a.files) THEN [a EXCEPT !.pc = "write", !.i = a.i + 1] ELSE [a EXCEPT !.pc = "persist"]

AnimatedFrame == UNCHANGED <<mainVars, sessionVars, editVars, mv, cx, px>>

\* handleSendMessage up to the first await: setIsLoading(true)
AnimatedSend ==
    /\ an.pc = "idle" /\ ~an.sent
    /\ an' = AnimationEffect([an EXCEPT !.pc = "exchange", !.isLoading = TRUE, !.sent = TRUE])
    /\ AnimatedFrame

\* readChatHistory, initializeChat and sendMessage returned with a response
AnimatedResponse(files) ==
    /\ an.pc = "exchange"
    /\ an' = AnimatedResume([an EXCEPT !.files = files, !.i = 0])
    /\ AnimatedFrame

\* one of them threw: catch and finally
AnimatedExchangeFailed ==
    /\ an.pc = "exchange"
    /\ an' = AnimatedFinally(an)
    /\ AnimatedFrame

\* writeFile of the i-th file returned.  On success setActiveFile(file.fileName)
\* and setOnAnimationComplete({ cb: resolve }); the loadContent effect reads
\* the file when the active file changed, and the animation effect runs for
\* the new callback.  The watcher reports the write once it is stable, after
\* the grace of the internal-change flag.  On failure the catch and finally
\* blocks run.
AnimatedWriteDone(io) ==
    /\ an.pc = "write"
    /\ LET f == an.files[an.i] IN
       IF io = "ok"
       THEN an' = AnimationEffect([an EXCEPT !.pc = "wait", !.disk[f.fileName] = f.code, !.activeFile = f.fileName,
                                             !.cb = an.i, !.updated = TRUE,
                                             !.reads = IF f.fileName # an.activeFile THEN an.reads \cup {f.fileName} ELSE an.reads])
       ELSE an' = AnimatedFinally(an)
    /\ AnimatedFrame

\* a readFile of loadContent returned: setActiveFileContent(content); the
\* animation effect runs when the code changed
AnimatedLoadDone(p) ==
    /\ p \in an.reads
    /\ LET a == [an EXCEPT !.reads = an.reads \ {p}, !.activeFileContent = an.disk[p]] IN
       an' = IF an.disk[p] # an.activeFileContent THEN AnimationEffect(a) ELSE a
    /\ AnimatedFrame

\* project-updated arrived: handleUpdate refreshes the tree and reads the
\* active file again
AnimatedProjectUpdated ==
    /\ an.updated
    /\ an' = [an EXCEPT !.updated = FALSE, !.reads = IF an.activeFile # NoPath THEN an.reads \cup {an.activeFile} ELSE an.reads]
    /\ AnimatedFrame

\* typeWord reached the end of the lines: the full text is shown and
\* onAnimationComplete?.() is called, which resolves the promise the cycle
\* waits on when it is that promise's resolve function
AnimationComplete ==
    /\ an.animating # 0
    /\ LET a == [an EXCEPT !.animating = 0, !.editText = an.activeFileContent] IN
       an' = IF an.pc = "wait" /\ an.animating = an.i THEN AnimatedResume(a) ELSE a
    /\ AnimatedFrame

\* the steps after the loop (getChatHistory, writeChatHistory, the README,
\* refreshProject) returned or threw: finally
AnimatedPersistDone ==
    /\ an.pc = "persist"
    /\ an' = AnimatedFinally(an)
    /\ AnimatedFrame

\* ------------------------------------------------------------------- Init
InitialDisk == [p \in DiskPaths |-> IF p = <<"a.ts">> THEN "old" ELSE Absent]
\* a project with two files at the root and two folders, one holding a file
MoveDisk == [p \in DiskPaths |-> IF p = <<"a.ts">> THEN "old" ELSE IF p = <<"b.ts">> THEN "bee" ELSE IF p = <<"src", "b.ts">> THEN "in"
                                 ELSE IF p \in {<<"src">>, <<"lib">>} THEN Dir ELSE Absent]
\* project B was used before: its chat.json holds one exchange
InitialChat == [r \in Roots |-> IF r = "B" THEN <<UserTurn("p", TRUE), ModelTurn(NoResponse)>> ELSE <<>>]

InitWith(d) ==
    /\ watcher = 0 /\ watchers = {} /\ isInternalChange = FALSE
    /\ timers = [r \in 0..Grace |-> 0]
    /\ pending = {}
    /\ disk = [r \in Roots |-> d]
    /\ chatJson = InitialChat
    /\ updates = 0 /\ out = NoOut /\ writeCalls = {} /\ opened = 0 /\ externals = 0 /\ nodeOps = 0
    /\ projectRoot = NoRoot /\ fileTree = {} /\ activeFile = NoPath /\ activeFileContent = ""
    /\ selectedNodes = {} /\ recentlyUpdatedPaths = {} /\ readmeContent = "" /\ chatHistory = <<>>
    /\ isLoading = FALSE /\ error = "" /\ notification = "" /\ chat = NoChat /\ chatSeq = 0
    /\ aiProvider \in {"gemini", "ollama"}
    /\ sm = Idle /\ sends = 0 /\ op = NoOp /\ loads = {}
    /\ editText = "" /\ isEditing = FALSE /\ editorTimers = {} /\ writeTimers = {} /\ debounceWriteFileRef = 0
    /\ edits = 0 /\ bursts = 0 /\ editWrites = 0 /\ lastEdit = NoEdit
    /\ mv = NoMove

Init == InitWith(InitialDisk) /\ cx = NoContext /\ px = NoParse /\ an = NoAnimation
InitMove == InitWith(MoveDisk) /\ cx = NoContext /\ px = NoParse /\ an = NoAnimation
\* the same with provider ollama, which needs no API key
InitKeep == InitMove /\ aiProvider = "ollama"
\* the context builder is called twice on each (tree, active file, buffer)
InitContext ==
    /\ InitWith(InitialDisk) /\ px = NoParse /\ an = NoAnimation
    /\ \E t \in ContextTrees, af \in {NoPath, <<"a.ts">>}, c \in {"", "x"} :
          /\ af = NoPath => c = ""
          /\ cx = [NoContext EXCEPT !.tree = t, !.activeFile = af, !.activeFileContent = c]
\* every parser is given each response text
InitParse ==
    /\ InitWith(InitialDisk) /\ cx = NoContext /\ an = NoAnimation
    /\ \E raw \in ResponseTexts : px = [NoParse EXCEPT !.responseText = raw]

\* one prompt cycle: handleSendMessage and the handlers it calls
SendCycle(resps, ios) ==
    \/ HandleSendMessageNoProject
    \/ \E prompt \in Prompts : HandleSendMessage(prompt)
    \/ GeminiPrepare
    \/ \E m \in {"transport", "rejected", "malformed", "not configured"} : AiFail(m)
    \/ \E resp \in resps : AiRespond(resp)
    \/ \E c \in writeCalls : WriteFileStart(c)
    \/ \E c \in writeCalls, io \in ios : WriteFileFinish(c, io)
    \/ \E io \in ios \ {"mkdir"} : WriteChatHistoryDone(io)
    \/ SendRefreshDone

\* handleOpenProject for a root
Opening(roots) ==
    \/ \E r \in roots : OpenProject(r)
    \/ OpenRefreshDone
    \/ \E keyOk \in BOOLEAN : OpenHistoryDone(keyOk)

\* the clock and the watcher
Watching ==
    \/ Tick
    \/ \E e \in pending : WatcherEvent(e)
    \/ OnProjectUpdated

NodeOps ==
    \/ \E p \in NewFiles : HandleAddFile(p)
    \/ \E p \in NewFolders : HandleAddFolder(p)
    \/ \E p \in DiskPaths : HandleDeleteNodes(p)
    \/ \E p \in DiskPaths, n \in NewNames : HandleRenameNode(p, n)
    \/ \E n \in NewNames : HandleUploadFile(n)

\* The session without the clock: projects are opened and closed, prompts are
\* sent, and the filesystem may fail any write.
Next ==
    \/ Opening(Roots)
    \/ CloseProject
    \/ SendCycle(Responses \cup {DeepResponse}, {"ok", "mkdir", "write"})
    \/ \E r \in loads : LoadContentDone(r)

Spec == Init /\ [][Next]_vars

\* One open project under the clock: prompt cycles write files while another
\* process edits a file, and the watcher reports.
NextWatch ==
    \/ Opening({"A"})
    \/ SendCycle({r \in Responses : r.readmeContent = ""}, {"ok"})
    \/ Watching
    \/ ResetTimerFire
    \/ \E p \in {<<"a.ts">>} : ExternalMutation("A", p, "ext")

SpecWatch == Init /\ [][NextWatch]_vars

\* Projects opened and closed under the clock, with node operations and
\* another process editing files; no prompt is sent.
NextProject ==
    \/ Opening(Roots)
    \/ CloseProject
    \/ Watching
    \/ NodeOps
    \/ \E r \in Roots, p \in {<<"a.ts">>} : ExternalMutation(r, p, "ext")

SpecProject == Init /\ [][NextProject]_vars

\* the debounced save reaching the disk
Saving(ios) ==
    \/ \E t \in writeTimers : DebounceFire(t)
    \/ \E c \in writeCalls : WriteFileStart(c)
    \/ \E c \in writeCalls, io \in ios : EditWriteFinish(c, io)

\* the session around an editor: one project, files selected and loaded, the
\* clock and the watcher
EditSession(ios) ==
    \/ Opening({"A"})
    \/ \E n \in fileTree : HandleSelectNode(n)
    \/ \E r \in loads : LoadContentDone(r)
    \/ Saving(ios)
    \/ Watching
    \/ ResetTimerFire

\* The user types into the textarea of components/CodeDisplay.tsx.
NextEdit ==
    \/ EditSession({"ok", "write"})
    \/ \E v \in Typed : TextAreaChange(v)

SpecEdit == Init /\ [][NextEdit]_vars

\* The user edits in the editor that keeps its own buffer and saves on blur.
NextEditor ==
    \/ EditSession({"ok", "write"})
    \/ HandleClickToEdit
    \/ \E v \in Typed : HandleTextAreaChange(v)
    \/ \E t \in editorTimers : EditorDebounceFire(t)
    \/ HandleBlur

SpecEditor == Init /\ [][NextEditor]_vars

\* The user looks at files of one project while another process changes or
\* deletes them.
NextView ==
    \/ Opening({"A"})
    \/ \E n \in fileTree : HandleSelectNode(n)
    \/ \E r \in loads : LoadContentDone(r)
    \/ Watching
    \/ \E c \in {"ext", Absent} : ExternalMutation("A", <<"a.ts">>, c)

SpecView == Init /\ [][NextView]_vars

\* Each context strategy is called twice on the same inputs, and the reads of
\* the full-context strategy answer in any order.
NextContext ==
    \/ \E k \in 1..2 : ContextCall(k)
    \/ \E k \in 1..2, p \in DiskPaths : ContextReadDone(k, p)
    \/ \E k \in 1..2 : ContextReturn(k)
    \/ \E k \in 1..2 : SummaryCall(k)

SpecContext == InitContext /\ [][NextContext]_vars

\* Each backend's parser is given the response text, and the write loop runs
\* over what the parser returns.
NextParse ==
    \/ \E b \in Backends : ParseResponse(b)
    \/ \E b \in Backends : ApplyResponse(b)

SpecParse == InitParse /\ [][NextParse]_vars

\* The user edits the active file while a prompt cycle is running: the cycle
\* makes its last written file active, and the textarea stays editable.
NextAssist ==
    \/ Opening({"A"})
    \/ SendCycle({r \in Responses : r.readmeContent = "" /\ Len(r.files) = 1}, {"ok"})
    \/ \E r \in loads : LoadContentDone(r)
    \/ \E v \in {"e1"} : TextAreaChange(v)
    \/ Saving({"ok"})
    \/ Watching
    \/ ResetTimerFire

SpecAssist == Init /\ [][NextAssist]_vars

\* A project is open in the third App with the typing effect on or off and
\* either CodeDisplay; at most one file is shown.  One prompt is sent.
InitAnimated ==
    /\ InitWith(InitialDisk) /\ cx = NoContext /\ px = NoParse
    /\ \E d \in Displays, t \in BOOLEAN, af \in {NoPath, <<"a.ts">>} :
          an = [NoAnimation EXCEPT !.pc = "idle", !.display = d, !.useTypingEffect = t, !.activeFile = af,
                                   !.activeFileContent = IF af = NoPath THEN "" ELSE AnimatedDisk[af],
                                   !.editText = IF af = NoPath THEN "" ELSE AnimatedDisk[af]]
NextAnimated ==
    \/ AnimatedSend
    \/ \E files \in AnimatedResponses : AnimatedResponse(files)
    \/ AnimatedExchangeFailed
    \/ \E io \in {"ok", "fail"} : AnimatedWriteDone(io)
    \/ \E p \in an.reads : AnimatedLoadDone(p)
    \/ AnimatedProjectUpdated
    \/ AnimationComplete
    \/ AnimatedPersistDone
\* the AI backend answers, every file-system call returns and every pending
\* timeout fires
SpecAnimated ==
    /\ InitAnimated /\ [][NextAnimated]_vars
    /\ WF_vars(\E files \in AnimatedResponses : AnimatedResponse(files))
    /\ WF_vars(\E io \in {"ok", "fail"} : AnimatedWriteDone(io))
    /\ WF_vars(\E p \in an.reads : AnimatedLoadDone(p))
    /\ WF_vars(AnimatedProjectUpdated)
    /\ WF_vars(AnimationComplete)
    /\ WF_vars(AnimatedPersistDone)

\* The user selects a file and then sends a prompt whose response rewrites a
\* file of the project, under the clock and the watcher.
NextRewrite ==
    \/ Opening({"A"})
    \/ \E n \in fileTree : HandleSelectNode(n)
    \/ \E r \in loads : LoadContentDone(r)
    \/ SendCycle({r \in Responses : r.readmeContent = "" /\ Len(r.files) = 1}, {"ok"})
    \/ Watching
    \/ ResetTimerFire

SpecRewrite == InitMove /\ [][NextRewrite]_vars

\* The user makes one edit to the active file and deletes or renames that file
\* while the debounced save is pending or running.
NextDiscard ==
    \/ EditSession({"ok"})
    \/ \E v \in {"e1"} : edits = 0 /\ TextAreaChange(v)
    \/ activeFile # NoPath /\ HandleDeleteNodes(activeFile)
    \/ \E n \in NewNames : activeFile # NoPath /\ HandleRenameNode(activeFile, n)

SpecDiscard == Init /\ [][NextDiscard]_vars

\* The user edits one of a.ts and b.ts, selects the other and edits it. Timers fire when they
\* are due, the main process answers every call, and the clock goes on.
NextKeep ==
    \/ Opening({"A"})
    \/ \E n \in {m \in fileTree : m.path \in {<<"a.ts">>, <<"b.ts">>}} : HandleSelectNode(n)
    \/ \E r \in loads : LoadContentDone(r)
    \/ \E v \in {"e1"} : TextAreaChange(v)
    \/ Saving({"ok"})
    \/ Watching
    \/ ResetTimerFire

SpecKeep ==
    /\ InitKeep /\ [][NextKeep]_vars
    /\ WF_vars(Tick) /\ WF_vars(ResetTimerFire)
    /\ WF_vars(\E e \in pending : WatcherEvent(e)) /\ WF_vars(OnProjectUpdated)
    /\ WF_vars(\E r \in loads : LoadContentDone(r))
    /\ WF_vars(\E t \in writeTimers : DebounceFire(t))
    /\ WF_vars(\E c \in writeCalls : WriteFileStart(c))
    /\ WF_vars(\E c \in writeCalls : EditWriteFinish(c, "ok"))

\* The user selects a file of one project and then deletes, renames or moves a
\* node; the watcher reports the removals at once.
NextTree ==
    \/ Opening({"A"})
    \/ \E n \in {m \in fileTree : m.type = "file"} : HandleSelectNode(n)
    \/ \E r \in loads : LoadContentDone(r)
    \/ \E p \in DiskPaths : HandleDeleteNodes(p)
    \/ \E p \in DiskPaths, n \in NewNames : HandleRenameNode(p, n)
    \/ \E srcs \in Draggable(fileTree), dest \in {NoPath, <<"src">>, <<"lib">>} : HandleMoveNodes(srcs, dest)
    \/ \E io \in {"ok", "fail"} : MoveRenameDone(io)
    \/ \E e \in pending : WatcherEvent(e)
    \/ OnProjectUpdated

SpecTree == InitKeep /\ [][NextTree]_vars

\* The user drags files and folders of one project to another folder or to the
\* root, and the filesystem may refuse a rename.
NextMove ==
    \/ Opening({"A"})
    \/ \E srcs \in Draggable(fileTree), dest \in {NoPath, <<"src">>, <<"lib">>} : HandleMoveNodes(srcs, dest)
    \/ \E io \in {"ok", "fail"} : MoveRenameDone(io)
    \/ Watching

SpecMove == InitMove /\ [][NextMove]_vars

\* ================================================================ properties
\* A step of the 'all' listener: the watcher delivered an event
Delivered == out.kind \in {"forward", "ignore"}
\* A write-file call is in its filesystem work, or finished less than 250 ms ago
WriteOrGrace == (\E c \in writeCalls : c.stage = "running") \/ (\E r \in 1..Grace : timers[r] > 0)

\* C1: the watcher event of the app's own write-file is never forwarded: when
\* the watcher delivers it, isInternalChange is true and the event is dropped.
C1_OwnWriteDropped == (Delivered /\ out.srcs = {"write-file"}) => (out.armed /\ out.kind = "ignore")

\* C2: isInternalChange is true from the start of every write-file call until
\* 250 ms after that call's write completed, whatever other calls overlap.
C2_FlagHeldThroughGrace == WriteOrGrace => isInternalChange

\* C3: a watcher event that carries another process's mutation is never
\* dropped, so every such mutation results in a 'project-updated' notification,
\* also when the event is delivered while isInternalChange is true.
C3_ExternalNeverDropped == (Delivered /\ "external" \in out.srcs) => out.kind = "forward"

C5_ArmedAtEveryOwnMutation == out.kind \in {"touch", "wrote"} => out.armed

\* The cycle of handleSendMessage ended in its catch block, at the given step
SendFailedAt(at) == out.kind = "sendFailed" /\ out.op = at

\* C6: when the AI call of a prompt cycle fails, the cycle ends with the
\* transcript as it was before the call, chat.json and the project files
\* untouched, no write-file issued, and an error shown.
C6_FailedExchangeRollsBack ==
    SendFailedAt("ai") =>
        /\ chatHistory = sm.currentHistory
        /\ chatJson[sm.root] = sm.chatBefore
        /\ sm.issued = 0 /\ writeCalls = {} /\ disk[sm.root] = sm.diskBefore
        /\ error # ""

\* C7: when the write of file k of an AI response fails, files 1..k-1 are on
\* disk with their new content, no other file (file k, the later ones, the
\* README) is written, chat.json is not rewritten, the transcript is as it was
\* before the prompt, and an error is shown.
C7_FailedWriteStopsCycle ==
    SendFailedAt("write") =>
        LET files == sm.resp.files
            k == sm.i
            now == disk[sm.root]
            written == {files[j].fileName : j \in 1..(k - 1)}
        IN /\ \A j \in 1..(k - 1) : (\A l \in (j + 1)..(k - 1) : files[l].fileName # files[j].fileName)
                                      => now[files[j].fileName] = files[j].code
           /\ \A p \in DOMAIN now \ written : (IsFile(now[p]) \/ IsFile(sm.diskBefore[p])) => now[p] = sm.diskBefore[p]
           /\ sm.issued = k /\ writeCalls = {}
           /\ chatJson[sm.root] = sm.chatBefore
           /\ chatHistory = sm.currentHistory
           /\ error # ""

\* C8: after a successful prompt cycle the transcript is the one from before
\* the prompt followed by one user turn and one model turn, and chat.json
\* holds the same transcript.
C8_TranscriptExtendedAndPersisted ==
    out.kind = "sendDone" =>
        LET n == Len(sm.currentHistory)
        IN /\ Len(chatHistory) = n + 2
           /\ SubSeq(chatHistory, 1, n) = sm.currentHistory
           /\ chatHistory[n + 1].role = "user" /\ chatHistory[n + 2].role = "model"
           /\ chatJson[sm.root] = chatHistory

\* C9: at most one watcher is live, it is the one `watcher` refers to and it
\* watches the root opened last; no event of an earlier watcher is pending or
\* delivered once a later root was opened.
C9_OneWatcherForLatestRoot ==
    /\ Cardinality(watchers) <= 1
    /\ \A w \in watchers : w.id = watcher /\ w.id = opened
    /\ projectRoot # NoRoot => watchers = {[id |-> watcher, root |-> projectRoot]}
    /\ \A e \in pending : e.w = watcher
    /\ Delivered => out.w = watcher

\* C9 witness: opening B as the second project closed the watcher of A while
\* an event for a change in A was still pending, and B's watcher is the live one
C9_Witness ==
    /\ out.kind = "opened" /\ opened = 2 /\ out.root = "B" /\ out.srcs = {"external"}
    /\ disk["A"][<<"a.ts">>] = "ext" /\ watchers = {[id |-> 2, root |-> "B"]} /\ pending = {}

\* C10: when closeProject has run, no watcher is live for the closed root, the
\* AI session is null and the session state is empty.
C10_CloseTearsDown ==
    out.kind = "closed" =>
        /\ \A w \in watchers : w.root # out.root
        /\ chat = NoChat
        /\ projectRoot = NoRoot /\ fileTree = {} /\ activeFile = NoPath /\ activeFileContent = ""
        /\ selectedNodes = {} /\ recentlyUpdatedPaths = {} /\ chatHistory = <<>>
\* C11: the debounced save has a single slot. At most one save is pending; an
\* edit of the active file puts its content in the buffer in the same step,
\* before any write-file for it, and replaces the pending save by one for its
\* content with the full delay; every burst of edits ends in exactly one
\* write-file, carrying the content of the burst's last edit.
C11_DebounceSingleSlot ==
    [][/\ Cardinality(writeTimers') <= 1
       /\ editWrites' + Cardinality(writeTimers') = bursts'
       /\ (out'.kind = "edit" /\ activeFile # NoPath /\ projectRoot # NoRoot) =>
            /\ activeFileContent' = out'.op
            /\ writeTimers' = {[id |-> debounceWriteFileRef', root |-> projectRoot, path |-> activeFile, content |-> out'.op, left |-> DebounceWrite]}
            /\ \A c \in writeCalls' : c.id # debounceWriteFileRef'
       /\ (editWrites' = editWrites + 1) =>
            /\ writeTimers' = {}
            /\ \E c \in writeCalls' \ writeCalls :
                  c.caller = "edit" /\ c.stage = "sent" /\ [root |-> c.root, path |-> c.path, content |-> c.content] = lastEdit
      ]_vars
\* a burst of two edits was saved by one write-file with the second edit's content
C11_Witness ==
    /\ out.kind = "saved" /\ out.op = "e2"
    /\ edits = 2 /\ bursts = 1 /\ editWrites = 1 /\ writeTimers = {}
    /\ disk["A"][<<"a.ts">>] = "e2" /\ activeFileContent = "e2"

\* C12: a blur that finds the editor's buffer different from the saved content
\* issues write-file for the editor's content in the blur step itself, without
\* waiting for a debounce.
C12_BlurFlushesAtOnce ==
    [][(out'.kind = "blur" /\ ~out'.quiet) =>
          \E c \in writeCalls' : c.caller = "edit" /\ c.root = projectRoot /\ c.path = activeFile /\ c.content = editText]_vars

\* C13: whenever 'project-updated' reaches the renderer with a project open, the
\* tree is listed again from the disk and, if a file is active, the buffer takes
\* its content as read from the disk; if that read fails, no file is active and
\* the buffer is empty.
C13_UpdateRefreshesAndRereads ==
    [][(out'.kind = "updated" /\ projectRoot # NoRoot) =>
          /\ fileTree' = readProjectTree(disk[projectRoot])
          /\ (activeFile # NoPath /\ IsFile(disk[projectRoot][activeFile])) =>
                (activeFile' = activeFile /\ activeFileContent' = disk[projectRoot][activeFile])
          /\ (activeFile # NoPath /\ ~IsFile(disk[projectRoot][activeFile])) =>
                (activeFile' = NoPath /\ activeFileContent' = "")
      ]_vars
\* the active file was deleted by another process and the update deselected it
C13_Witness ==
    /\ out.kind = "updated" /\ out.op = "cleared"
    /\ projectRoot = "A" /\ disk["A"][<<"a.ts">>] = Absent
    /\ activeFile = NoPath /\ activeFileContent = "" /\ fileTree = {}

\* C14: when the read of a selected file fails, an error is set and no path
\* remains active.
C14_FailedLoadDeselects ==
    [][(out'.kind = "loaded" /\ out'.op = "failed") => (error' # "" /\ activeFile' = NoPath)]_vars

\* C15: when the k-th rename of a move fails, the error is shown, every path
\* before the k-th exists at the destination and no longer at its source, and the
\* k-th and every later path still exists at its original location.
C15_MoveStopsAtFirstFailure ==
    [][(out'.kind = "moveFailed") =>
          /\ error' # ""
          /\ \A j \in 1..Len(mv.sourcePaths) :
                LET source == mv.sourcePaths[j]
                    target == MoveTarget(source, mv.destinationPath)
                IN IF j < mv.i
                   THEN disk'[mv.root][target] # Absent /\ (target # source => disk'[mv.root][source] = Absent)
                   ELSE disk'[mv.root][source] # Absent
      ]_vars

\* C16: when a prompt cycle that wrote the response's files sets the indicators,
\* they are exactly the response's file paths and every proper, non-empty prefix
\* of them (the folders above each file), and they are still that when the cycle
\* ends in success in the session that sent the prompt; a file at the root adds
\* no folder.
C16_IndicatorsAreFilesAndAncestors ==
    [][LET expected(resp) == {f.fileName : f \in {resp.files[k] : k \in 1..Len(resp.files)}}
                               \cup {q \in DiskPaths : \E k \in 1..Len(resp.files) : IsPrefix(q, resp.files[k].fileName) /\ q # resp.files[k].fileName}
       IN /\ (sm.pc # "refresh" /\ sm'.pc = "refresh") => recentlyUpdatedPaths' = expected(sm'.resp)
          /\ (out'.kind = "sendDone" /\ projectRoot = sm.root /\ opened = sm.session) => recentlyUpdatedPaths' = expected(sm.resp)
      ]_vars
\* a cycle that wrote src/src/b.ts ended with the file and both folders marked
C16_Witness ==
    /\ out.kind = "sendDone"
    /\ recentlyUpdatedPaths = {<<"src", "src", "b.ts">>, <<"src", "src">>, <<"src">>}
    /\ projectRoot = "A" /\ disk["A"][<<"src", "src", "b.ts">>] = "B"

\* C17: the indicators are empty at every step in which a mutation the user
\* started begins to touch the disk: the first write-file of a prompt cycle, the
\* write-file of a manual edit, the first operation of a node create, rename,
\* delete, move or upload.
C17_IndicatorsEmptyAtUserMutation ==
    [][(\/ editWrites' = editWrites + 1
        \/ nodeOps' = nodeOps + 1
        \/ (sm.issued = 0 /\ sm'.issued = 1)) => recentlyUpdatedPaths' = {}]_vars

\* C18: two calls of a context strategy on the same tree, file contents, active
\* file and buffer return the same text, whatever the order in which the reads
\* answer.
C18_ContextDeterministic ==
    /\ (cx.full[1].pc = "done" /\ cx.full[2].pc = "done") => cx.full[1].result = cx.full[2].result
    /\ (cx.summary[1].pc = "done" /\ cx.summary[2].pc = "done") => cx.summary[1].result = cx.summary[2].result

\* C19: for a tree without any file, the text each strategy returns is not empty
\* and contains the 'no existing files' marker.
C19_EmptyProjectMarker ==
    \A k \in 1..2 :
        /\ (FileNodes(cx.tree) = <<>> /\ cx.full[k].pc = "done") =>
              (cx.full[k].result # <<>> /\ \E i \in 1..Len(cx.full[k].result) : cx.full[k].result[i] = NoFilesMarker)
        /\ (FileNodes(cx.tree) = <<>> /\ cx.summary[k].pc = "done") =>
              (cx.summary[k].result # <<>> /\ \E i \in 1..Len(cx.summary[k].result) : cx.summary[k].result[i] = NoFilesMarker)

\* C20: a parser returns a response only if it is an object whose files is a
\* list of objects with a string name and a string content and whose readme is
\* a string, and no write-file call is made with a name or a content that is
\* not a string.
C20_MalformedResponseRejected ==
    \A b \in Backends :
        /\ px.parsed[b] \in {"returned", "applied"} =>
              /\ px.responseText.json.kind = "object" /\ px.responseText.json.files = "list" /\ px.responseText.json.readmeContent = "string"
              /\ \A i \in 1..Len(px.responseText.json.items) : ElementValid(px.responseText.json.items[i])
        /\ \A i \in 1..Len(px.calls[b]) : px.calls[b][i].relativePath = "string" /\ px.calls[b][i].content = "string"

\* C21: the files of a response are applied one at a time in response order:
\* when the write of file i+1 is issued, file i is on disk and is the active
\* file, and when the cycle ends the last returned file is the active file (in
\* the session that sent the prompt).
C21_FilesAppliedOneByOne ==
    [][LET same == projectRoot = sm.root /\ opened = sm.session
       IN /\ (same /\ sm.pc = "write" /\ sm'.pc = "write" /\ sm'.i = sm.i + 1) =>
                /\ disk'[sm.root][sm.resp.files[sm.i].fileName] = sm.resp.files[sm.i].code
                /\ activeFile' = sm.resp.files[sm.i].fileName
          /\ (same /\ out'.kind = "sendDone" /\ Len(sm.resp.files) > 0) => activeFile' = Last(sm.resp.files).fileName
      ]_vars

\* C22: on a successful exchange the README is written before the transcript is
\* persisted: at the step that writes chat.json for a response with a README,
\* README.md on disk already holds the response's README.
C22_ReadmeBeforeTranscript ==
    [][(out'.kind = "persisted" /\ out'.op = "ok" /\ sm.resp.readmeContent # "") =>
          disk[sm.root][ReadmePath] = sm.resp.readmeContent
      ]_vars

\* nothing is pending: no debounce timer, no exchange or file operation in
\* flight, no read in flight, no watcher event or notification undelivered, no
\* grace period running
Quiescent ==
    /\ writeTimers = {} /\ editorTimers = {} /\ writeCalls = {} /\ loads = {}
    /\ sm.pc = "idle" /\ op.pc = "idle" /\ mv.pc = "idle"
    /\ pending = {} /\ updates = 0 /\ \A r \in DOMAIN timers : timers[r] = 0

\* C23: whenever the session is quiescent and a file is active, the buffer
\* equals the content of that file on disk.
C23_QuiescentBufferEqualsDisk ==
    (Quiescent /\ projectRoot # NoRoot /\ activeFile # NoPath) => activeFileContent = disk[projectRoot][activeFile]

\* C24: the buffer never holds the content of a file other than the active one:
\* once every read has answered, the buffer is not the content of another file
\* of the project (the files of the project have pairwise different contents).
C24_BufferIsOfActiveFile ==
    (loads = {} /\ projectRoot # NoRoot /\ activeFile # NoPath) =>
        \A q \in DiskPaths \ {activeFile} : IsFile(disk[projectRoot][q]) => activeFileContent # disk[projectRoot][q]

\* C25: a deleted or renamed path stays gone: the write-file of a debounced
\* save never creates a path that is absent from disk (in a session where a
\* path the user edits is absent only after its delete or rename).
C25_DeletedPathStaysGone ==
    [][\A c \in writeCalls :
          (c.caller = "edit" /\ c.stage = "running" /\ c \notin writeCalls' /\ nodeOps > 0 /\ disk[c.root][c.path] = Absent)
              => disk'[c.root][c.path] = Absent
      ]_vars

\* C26: once a project has been closed, no write-file and no
\* write-chat-history is issued against its root: every write-file call that
\* is issued, and every write-chat-history, is for the project that is open,
\* and a prompt cycle issues them only in the session that sent the prompt.
C26_NoWriteAfterClose ==
    [][/\ \A c \in writeCalls' \ writeCalls :
             c.stage = "sent" => (projectRoot = c.root /\ (c.caller = "send" => opened = sm.session))
       /\ (sm.pc # "persist" /\ sm'.pc = "persist") => (projectRoot = sm.root /\ opened = sm.session)
      ]_vars

\* C27: the session state belongs to the open project: a step of a prompt cycle
\* whose project was closed, or closed and another opened, since the prompt
\* was sent changes neither the transcript, the active file, the indicators and
\* the README that are shown, nor the chat.json of the open project, nor the AI
\* session.
C27_SessionStateOfOpenProject ==
    [][(sm.pc # "idle" /\ sm' # sm /\ (projectRoot # sm.root \/ opened # sm.session)) =>
          /\ UNCHANGED <<chatHistory, activeFile, recentlyUpdatedPaths, readmeContent, chat>>
          /\ projectRoot # NoRoot => chatJson'[projectRoot] = chatJson[projectRoot]
      ]_vars

\* C28: no manual edit is lost: an edit of a file that waits for its debounced
\* save is eventually on disk in that file (every edit types the same text, so
\* the text of the last edit of a file is that text).
C28_NoEditLost ==
    \A p \in {<<"a.ts">>, <<"b.ts">>} :
        (\E t \in writeTimers : t.root = "A" /\ t.path = p /\ t.content = "e1") ~> (disk["A"][p] = "e1")

\* C29: when a delete, a rename or a move has completed and the tree has been
\* refreshed, the active file is null or the path of a file of the tree.
C29_ActiveFileInTree ==
    [][(\/ out'.kind = "touch" /\ out'.op \in {"delete-node", "rename-node"} /\ mv'.pc = "idle"
        \/ out'.kind = "moved")
          => (activeFile' = NoPath \/ \E n \in fileTree' : n.path = activeFile' /\ n.type = "file")
      ]_vars

\* C30: every prompt cycle terminates: once the AI backend has answered and
\* the file-system calls have returned, the session is no longer loading; in
\* the typed-out variant this holds for every returned file, also when the
\* typing effect is disabled or the written content equals the content shown.
C30_CycleTerminates == an.isLoading ~> ~an.isLoading

====
